---- MODULE Spec2Model ----
(***************************************************************************)
(* A model of the tmick IoC container (CustomContainer and its facade      *)
(* CustomServiceContainer), the static HandlerRegistry and the handler     *)
(* tables of the command/query/event dispatchers.                          *)
(*                                                                         *)
(* Identifiers are records [kind, name, uid]: a string is its text, a      *)
(* class is its constructor (one per name), a Token is an object, so two   *)
(* Tokens of one name differ by uid.  Objects live in a heap: object n is  *)
(* heap[n], and reference equality is equality of heap indices.  0 is the  *)
(* JavaScript undefined (no object, an absent Map entry).                  *)
(***************************************************************************)
EXTENDS Integers, Sequences, FiniteSets, TLC

VARIABLES
    container,      \* the CustomContainer: its three Maps, the heap, the history maps
    meta,           \* the Reflect metadata store: class name -> metadata of the class
    calls,          \* how many register/clear calls have been made on the container
    registry,       \* the static Maps and list of HandlerRegistry
    cmdHandlers,    \* CommandDispatcher.handlers
    qryHandlers,    \* QueryDispatcher.handlers
    evtHandlers,    \* EventDispatcher.handlers
    lastReg,        \* the last call on the registry or a dispatcher and how it ended
    regCalls,       \* how many calls have been made on the registry and the dispatchers
    disp,           \* the dispatch() in flight: its promise and the handler calls it made
    tmick,          \* the Tmick orchestrator: its flag, its dispatcher fields, its last call
    other,          \* a second Tmick of the process: its container, dispatchers and fields
    inflight,       \* the earlier dispatch() calls whose promises are still awaited
    run             \* the container.get() call that is followed step by step: its call stack

containerVars == <<container, meta, calls>>
registryVars == <<registry, cmdHandlers, qryHandlers, evtHandlers, lastReg, regCalls>>
appVars == <<disp, tmick, other, inflight, run>>
vars == <<container, meta, calls,
          registry, cmdHandlers, qryHandlers, evtHandlers, lastReg, regCalls, disp, tmick,
          other, inflight, run>>

(***************************************************************************)
(* Bounds of the model.                                                    *)
(***************************************************************************)
\* Objects the heap may hold; a call that would construct more is not taken.
MaxHeap == 4
\* Registration and clear calls made on one container.
MaxCalls == 2
\* Depth of nested get() calls at which the JavaScript call stack overflows.
MaxStack == 5
\* Calls made on the handler registry and the dispatchers.
MaxRegistryCalls == 3
\* Calls made on one Tmick orchestrator.
MaxTmickCalls == 3
\* Events in one list handed to EventDispatcher.dispatch.
MaxEvents == 2

(***************************************************************************)
(* The identifier model (types.ts: ServiceIdentifier, Token).              *)
(***************************************************************************)
Str(n) == [kind |-> "string", name |-> n, uid |-> 0]
Cls(n) == [kind |-> "class", name |-> n, uid |-> 0]
Tok(n, u) == [kind |-> "token", name |-> n, uid |-> u]
\* The Token addIdentifierMapping creates for a string: an object of its own.
AutoTok(n) == [kind |-> "token", name |-> n, uid |-> 0]
\* No identifier: an absent Map entry, a hole of a sparse dependency array.
NoId == [kind |-> "none", name |-> "", uid |-> 0]

(***************************************************************************)
(* The universe the calls draw their arguments from.                       *)
(*   class A  @Injectable()            constructor()                       *)
(*   class B  @Injectable(...)         constructor(@Inject(A) a)           *)
(*   class C  (not injectable)         constructor(@Inject(B) b,           *)
(*                                                 @Inject(R) r)           *)
(*   R = new Token('R'); the strings 's' and 'A' (the name of class A).    *)
(***************************************************************************)
ClassNames == {"A", "B", "C"}
Classes == {Cls(n) : n \in ClassNames}
R == Tok("R", 1)
UserTokens == {R}
UserStrings == {Str("s"), Str("A")}
Ids == UserStrings \cup UserTokens \cup Classes
\* The framework's own services: the three dispatcher classes, each
\* @Injectable() @Singleton() with constructor(@Inject(ISERVICECONTAINER_TOKEN)
\* container), and the four Tokens of tokens.ts.
DispatcherNames == {"CommandDispatcher", "QueryDispatcher", "EventDispatcher"}
CommandDispatcher == Cls("CommandDispatcher")
QueryDispatcher == Cls("QueryDispatcher")
EventDispatcher == Cls("EventDispatcher")
EVENT_DISPATCHER_TOKEN == Tok("IEventDispatcher", 1)
COMMAND_DISPATCHER_TOKEN == Tok("ICommandDispatcher", 1)
QUERY_DISPATCHER_TOKEN == Tok("IQueryDispatcher", 1)
ISERVICECONTAINER_TOKEN == Tok("IServiceContainer", 1)
FrameworkIds ==
    {CommandDispatcher, QueryDispatcher, EventDispatcher, EVENT_DISPATCHER_TOKEN,
     COMMAND_DISPATCHER_TOKEN, QUERY_DISPATCHER_TOKEN, ISERVICECONTAINER_TOKEN}
Names == {i.name : i \in Ids \cup FrameworkIds}
\* Every identifier a Map of the container can be keyed by.
Keys == Ids \cup {AutoTok(i.name) : i \in UserStrings} \cup FrameworkIds

\* Factory functions handed to registerFactory, by name:
\*   mk = (c) => new Thing(c.get('s'))
FactoryNames == {"mk"}
FactoryDeps(f) == <<Str("s")>>

\* The instance constructed by the caller and handed to registerInstance: the
\* first object of the heap.
ExternalObject == [src |-> <<"external", "">>, args |-> <<>>]
InitialHeap == <<ExternalObject>>
Externals == DOMAIN InitialHeap

(***************************************************************************)
(* Class metadata (Reflect.getMetadata(key, class)).                       *)
(***************************************************************************)
\* 'cqrs:injectable-service' and 'cqrs:param-dependencies' of a class.
Metadata(inj, id, single, deps) ==
    [injectable |-> inj, id |-> id, singleton |-> single, paramDeps |-> deps]

\* The metadata the decorators of the classes above leave behind when B is
\* declared under bid with the lifetime bs.
MetaTable(bid, bs) ==
    [n \in ClassNames \cup DispatcherNames |->
        CASE n = "A" -> Metadata(TRUE, Cls("A"), TRUE, <<>>)
          [] n = "B" -> Metadata(TRUE, bid, bs, <<Cls("A")>>)
          [] n = "C" -> Metadata(FALSE, NoId, TRUE, <<Cls("B"), R>>)
          [] OTHER -> Metadata(TRUE, Cls(n), TRUE, <<ISERVICECONTAINER_TOKEN>>)]

\* B is @Injectable('s') or @Injectable({ id: R }), singletons by default, or
\* @Injectable({ id: R }) @Transient().
MetaTables ==
    {MetaTable(Str("s"), TRUE), MetaTable(R, TRUE), MetaTable(R, FALSE)}

\* CustomContainer.getMetadataDependencies: only 'cqrs:param-dependencies' is
\* ever written, so the two other keys read as undefined.
getMetadataDependencies(m, c) == m[c.name].paramDeps

(***************************************************************************)
(* Service descriptors (types.ts).                                         *)
(***************************************************************************)
NoDesc ==
    [type |-> "none", identifier |-> NoId, factory |-> "", ctor |-> "",
     singleton |-> FALSE, deps |-> <<>>, instance |-> 0]
FactoryServiceDescriptor(id, f, single) ==
    [type |-> "factory", identifier |-> id, factory |-> f, ctor |-> "",
     singleton |-> single, deps |-> <<>>, instance |-> 0]
ConstructorServiceDescriptor(id, c, single, deps) ==
    [type |-> "constructor", identifier |-> id, factory |-> "", ctor |-> c.name,
     singleton |-> single, deps |-> deps, instance |-> 0]
InstanceServiceDescriptor(id, obj) ==
    [type |-> "instance", identifier |-> id, factory |-> "", ctor |-> "",
     singleton |-> TRUE, deps |-> <<>>, instance |-> obj]

(***************************************************************************)
(* The container as a value: the three Maps of CustomContainer           *)
(* (services, instances, strmap = stringToIdentifierMap), the heap of all  *)
(* objects constructed so far, and two histories that the code does not    *)
(* keep: built[k], the objects constructed for the descriptor now stored   *)
(* under k; stale[k], the objects that were cached under k when a          *)
(* registerFactory or registerConstructor call overwrote its descriptor.   *)
(* The Map instances is two fields: cached, the set of its keys (what      *)
(* instances.has answers), and instances[k], what instances.get(k)         *)
(* returns: object 0 (undefined) for a key the Map has not and for a key   *)
(* that was set to undefined.                                              *)
(***************************************************************************)
EmptyContainer ==
    [services |-> [k \in Keys |-> NoDesc],
     instances |-> [k \in Keys |-> 0],
     cached |-> {},
     strmap |-> [n \in Names |-> NoId],
     heap |-> InitialHeap,
     built |-> [k \in Keys |-> {}],
     stale |-> [k \in Keys |-> {}]]

\* CustomContainer.getIdentifierName
getIdentifierName(id) ==
    IF id.kind \in {"string", "token", "class"} THEN id.name ELSE "Unknown"

\* CustomContainer.getCanonicalIdentifier
getCanonicalIdentifier(cs, id) ==
    IF id.kind = "string" /\ id.name \in Names /\ cs.strmap[id.name] # NoId
    THEN cs.strmap[id.name]
    ELSE id

\* A name table that gives every string a token of its own, whatever the
\* constructor registered with it.
addIdentifierMapping_NoPrimary(cs, id, primary) ==
    IF cs.strmap[id.name] # NoId THEN cs
    ELSE IF id.kind = "string" THEN [cs EXCEPT !.strmap[id.name] = AutoTok(id.name)]
    ELSE [cs EXCEPT !.strmap[id.name] = id]

\* CustomContainer.addIdentifierMapping: the first identifier seen for a name
\* stays; primary is NoId when the caller passes none.
addIdentifierMapping(cs, id, primary) ==
    IF cs.strmap[id.name] # NoId THEN cs
    ELSE IF id.kind = "string"
         THEN [cs EXCEPT !.strmap[id.name] =
                  IF primary # NoId THEN primary ELSE AutoTok(id.name)]
         ELSE [cs EXCEPT !.strmap[id.name] = id]

\* this.services.set(key, d), with the history of key starting afresh.
SetService(cs, key, d) ==
    [cs EXCEPT !.services[key] = d, !.built[key] = {}]

\* A container that forgets to cache.
CacheInstance_Skipped(cs, key, obj) == cs

\* this.instances.set(key, obj)
CacheInstance(cs, key, obj) ==
    [cs EXCEPT !.instances[key] = obj, !.cached = @ \cup {key}]

\* A re-registration that keeps the cached instance.
DeleteInstance_Kept(cs, key) == cs

\* this.instances.delete(key), the object dropped noted in the history of key.
DeleteInstance(cs, key) ==
    [cs EXCEPT !.instances[key] = 0, !.cached = @ \ {key},
               !.stale[key] = IF cs.instances[key] = 0 THEN @ ELSE @ \cup {cs.instances[key]}]

\* CustomContainer.registerFactory
registerFactory(cs, id, f, single) ==
    LET c1 == addIdentifierMapping(cs, id, NoId)
        canon == getCanonicalIdentifier(c1, id)
        c2 == SetService(c1, canon, FactoryServiceDescriptor(canon, f, single))
    IN  DeleteInstance(c2, canon)

\* CustomContainer.registerConstructor
registerConstructor(cs, id, ctor, single, deps) ==
    LET c1 == addIdentifierMapping(cs, id, ctor)
        canon == getCanonicalIdentifier(c1, id)
        c2 == SetService(c1, canon, ConstructorServiceDescriptor(canon, ctor, single, deps))
    IN  DeleteInstance(c2, canon)

\* CustomContainer.registerInstance
registerInstance(cs, id, obj) ==
    LET c1 == addIdentifierMapping(cs, id, NoId)
        canon == getCanonicalIdentifier(c1, id)
        c2 == SetService(c1, canon, InstanceServiceDescriptor(canon, obj))
    IN  CacheInstance(c2, canon, obj)

\* A has() that looks at the descriptors only.
has_DescriptorsOnly(cs, id) ==
    cs.services[getCanonicalIdentifier(cs, id)].type # "none"

\* CustomContainer.has
has(cs, id) ==
    \/ cs.services[getCanonicalIdentifier(cs, id)].type # "none"
    \/ cs.strmap[getIdentifierName(id)] # NoId

\* CustomContainer.clear
clear(cs) ==
    [EmptyContainer EXCEPT !.heap = cs.heap]

(***************************************************************************)
(* Resolution.  A call returns the container it leaves behind together     *)
(* with its outcome: ok and the object, or the error thrown.  An exception *)
(* undoes nothing, so the container of a failed call is the one the call   *)
(* had reached.  fuel is the room left on the call stack, in nested get()  *)
(* calls.                                                                  *)
(***************************************************************************)
Return(cs, obj) == [cs |-> cs, ok |-> TRUE, val |-> obj, err |-> ""]
Throw(cs, e) == [cs |-> cs, ok |-> FALSE, val |-> 0, err |-> e]

\* An error that does not name the identifier.
NotRegistered_Unnamed(id) == "Service not registered."

NotRegistered(id) == "Service '" \o getIdentifierName(id) \o "' not registered."
StackOverflow == "RangeError: Maximum call stack size exceeded"

\* new C(...args) / the object literal a factory returns: a fresh heap object,
\* noted in the history of the descriptor of key.
Construct(cs, key, src, args) ==
    LET obj == Len(cs.heap) + 1
    IN  Return([cs EXCEPT !.heap = Append(@, [src |-> src, args |-> args]),
                          !.built[key] = @ \cup {obj}], obj)

RECURSIVE get(_, _, _)
RECURSIVE resolveService(_, _, _)
RECURSIVE resolveDependencies(_, _, _, _)
RECURSIVE handleAutoRegistration(_, _, _)

\* A resolution that goes on past a dependency it cannot resolve and passes
\* undefined in its place.
resolveDependencies_Lenient(cs, deps, i, fuel) ==
    IF i > Len(deps) THEN [cs |-> cs, ok |-> TRUE, vals |-> <<>>, err |-> ""]
    ELSE LET r == IF deps[i] = NoId THEN Return(cs, 0) ELSE get(cs, deps[i], fuel)
             rest == resolveDependencies(r.cs, deps, i + 1, fuel)
         IN  [rest EXCEPT !.vals = IF rest.ok THEN <<r.val>> \o @ ELSE @]

\* A resolution that takes the dependencies from the last to the first.
resolveDependencies_RightToLeft(cs, deps, i, fuel) ==
    IF i > Len(deps) THEN [cs |-> cs, ok |-> TRUE, vals |-> <<>>, err |-> ""]
    ELSE LET rest == resolveDependencies(cs, deps, i + 1, fuel)
         IN  IF ~rest.ok THEN rest
             ELSE IF deps[i] = NoId THEN [rest EXCEPT !.vals = <<0>> \o @]
             ELSE LET r == get(rest.cs, deps[i], fuel)
                  IN  IF ~r.ok THEN [cs |-> r.cs, ok |-> FALSE, vals |-> <<>>, err |-> r.err]
                      ELSE [cs |-> r.cs, ok |-> TRUE, vals |-> <<r.val>> \o rest.vals,
                            err |-> ""]

\* CustomContainer.resolveDependencies: canonicalDependencies.map(get), from
\* entry i on.  map skips the holes of a sparse array and the spread of the
\* result passes undefined there.
resolveDependencies(cs, deps, i, fuel) ==
    IF i > Len(deps) THEN [cs |-> cs, ok |-> TRUE, vals |-> <<>>, err |-> ""]
    ELSE IF deps[i] = NoId
    THEN LET rest == resolveDependencies(cs, deps, i + 1, fuel)
         IN  [rest EXCEPT !.vals = IF rest.ok THEN <<0>> \o @ ELSE @]
    ELSE LET r == get(cs, deps[i], fuel)
         IN  IF ~r.ok THEN [cs |-> r.cs, ok |-> FALSE, vals |-> <<>>, err |-> r.err]
             ELSE LET rest == resolveDependencies(r.cs, deps, i + 1, fuel)
                  IN  [rest EXCEPT !.vals = IF rest.ok THEN <<r.val>> \o @ ELSE @]

\* CustomContainer.resolveService.  The three tests read the fields of the
\* descriptor: undefined is 0 for an instance and "" for a factory and a
\* constructor.  'constructor' in descriptor holds of every descriptor; what
\* descriptor.constructor reads is the property of its own that
\* registerConstructor wrote (type "constructor"), which fails the test and
\* leads to the throw when it is undefined, and otherwise the Object that an
\* object literal inherits: a descriptor of registerFactory or
\* registerInstance with an undefined factory or instance is resolved as
\* new Object().
resolveService(cs, d, fuel) ==
    IF d.instance # 0 THEN Return(cs, d.instance)
    ELSE IF d.factory # ""
    THEN \* factory(this): the factory resolves what it needs, then constructs
         LET a == resolveDependencies(cs, FactoryDeps(d.factory), 1, fuel)
         IN  IF ~a.ok THEN Throw(a.cs, a.err)
             ELSE Construct(a.cs, d.identifier, <<"factory", d.factory>>, a.vals)
    ELSE IF d.type = "constructor" /\ d.ctor = ""
    THEN Throw(cs, "Cannot resolve service '" \o getIdentifierName(d.identifier)
                       \o "': No factory, constructor, or instance provided.")
    ELSE LET a == resolveDependencies(cs, d.deps, 1, fuel)
         IN  IF ~a.ok THEN Throw(a.cs, a.err)
             ELSE Construct(a.cs, d.identifier,
                            <<"class", IF d.ctor # "" THEN d.ctor ELSE "Object">>, a.vals)

\* An auto-registration that enters the class in the name table as the
\* register methods do.
handleAutoRegistration_Unmarked(cs, id, fuel) ==
    IF id.kind # "class" THEN Throw(cs, "")
    ELSE LET m == meta[id.name]
             serviceId == IF m.id # NoId THEN m.id ELSE id
             autoDescriptor == ConstructorServiceDescriptor(serviceId, id, m.singleton, <<>>)
             r == resolveService(SetService(cs, id, autoDescriptor), autoDescriptor, fuel)
         IN  IF ~r.ok THEN r
             ELSE Return(CacheInstance(r.cs, id, r.val), r.val)

handleAutoRegistration_Mapping(cs, id, fuel) ==
    IF ~(id.kind = "class" /\ meta[id.name].injectable) THEN Throw(cs, "")
    ELSE LET m == meta[id.name]
             serviceId == IF m.id # NoId THEN m.id ELSE id
             deps == [j \in DOMAIN getMetadataDependencies(meta, id) |->
                         IF getMetadataDependencies(meta, id)[j] = NoId THEN NoId
                         ELSE getCanonicalIdentifier(cs, getMetadataDependencies(meta, id)[j])]
             autoDescriptor == ConstructorServiceDescriptor(serviceId, id, m.singleton, deps)
             c0 == SetService(addIdentifierMapping(cs, id, NoId), serviceId, autoDescriptor)
             c1 == IF serviceId # id THEN SetService(c0, id, autoDescriptor) ELSE c0
             r == resolveService(c1, autoDescriptor, fuel)
         IN  IF ~r.ok THEN r
             ELSE IF m.singleton
                  THEN Return(CacheInstance(CacheInstance(r.cs, serviceId, r.val), id, r.val),
                              r.val)
                  ELSE r

\* CustomContainer.handleAutoRegistration; ok = FALSE with err = "" is the
\* null it returns when the identifier is no injectable class.
handleAutoRegistration(cs, id, fuel) ==
    IF ~(id.kind = "class" /\ meta[id.name].injectable) THEN Throw(cs, "")
    ELSE LET m == meta[id.name]
             serviceId == IF m.id # NoId THEN m.id ELSE id
             deps == [j \in DOMAIN getMetadataDependencies(meta, id) |->
                         IF getMetadataDependencies(meta, id)[j] = NoId THEN NoId
                         ELSE getCanonicalIdentifier(cs, getMetadataDependencies(meta, id)[j])]
             autoDescriptor == ConstructorServiceDescriptor(serviceId, id, m.singleton, deps)
             c0 == SetService(cs, serviceId, autoDescriptor)
             c1 == IF serviceId # id THEN SetService(c0, id, autoDescriptor) ELSE c0
             r == resolveService(c1, autoDescriptor, fuel)
         IN  IF ~r.ok THEN r
             ELSE IF m.singleton
                  THEN Return(CacheInstance(CacheInstance(r.cs, serviceId, r.val), id, r.val),
                              r.val)
                  ELSE r

\* A get() that does not look into the instance cache.
get_Fresh(cs, id, fuel) ==
    LET canon == getCanonicalIdentifier(cs, id)
        descriptor == cs.services[canon]
    IN  IF fuel = 0 THEN Throw(cs, StackOverflow)
        ELSE IF descriptor.type = "none"
        THEN LET a == handleAutoRegistration(cs, id, fuel - 1)
             IN  IF a.ok \/ a.err # "" THEN a ELSE Throw(cs, NotRegistered(id))
        ELSE resolveService(cs, descriptor, fuel - 1)

\* CustomContainer.get
get(cs, id, fuel) ==
    LET canon == getCanonicalIdentifier(cs, id)
        descriptor == cs.services[canon]
    IN  IF fuel = 0 THEN Throw(cs, StackOverflow)
        ELSE IF canon \in cs.cached THEN Return(cs, cs.instances[canon])
        ELSE IF descriptor.type = "none"
        THEN LET a == handleAutoRegistration(cs, id, fuel - 1)
             IN  IF a.ok THEN Return(a.cs, a.val)
                 ELSE IF a.err # "" THEN a
                 ELSE Throw(cs, NotRegistered(id))
        ELSE LET r == resolveService(cs, descriptor, fuel - 1)
             IN  IF ~r.ok THEN r
                 ELSE IF descriptor.singleton
                 THEN Return(CacheInstance(r.cs, canon, r.val), r.val)
                 ELSE Return(r.cs, r.val)

(***************************************************************************)
(* A JavaScript Map as the sequence of its entries <<key, value>> in       *)
(* insertion order: set() on a key already there keeps the entry's place.  *)
(***************************************************************************)
MapHas(m, k) == \E i \in DOMAIN m : m[i][1] = k
MapGet(m, k) == m[CHOOSE i \in DOMAIN m : m[i][1] = k][2]
MapSet(m, k, v) ==
    IF MapHas(m, k)
    THEN [i \in DOMAIN m |-> IF m[i][1] = k THEN <<k, v>> ELSE m[i]]
    ELSE Append(m, <<k, v>>)

(***************************************************************************)
(* HandlerRegistry (registry/handler-registry.ts) and the registerHandler  *)
(* of the three dispatchers.  A call returns the state it leaves and its   *)
(* outcome, as the container's calls do.                                   *)
(***************************************************************************)
HandlerClasses == {Cls("H1"), Cls("H2")}
TargetTypes == {"T1", "T2"}
HandlerTypes == {"command", "query", "event"}

EmptyRegistry ==
    [commandHandlersMap |-> <<>>, queryHandlersMap |-> <<>>,
     eventHandlersMap |-> <<>>, serviceClasses |-> <<>>]

\* HandlerRegistry.registerServiceClass
registerServiceClass(reg, serviceClass) ==
    IF \E i \in DOMAIN reg.serviceClasses : reg.serviceClasses[i] = serviceClass
    THEN reg
    ELSE [reg EXCEPT !.serviceClasses = Append(@, serviceClass)]

CommandAlreadyRegistered(t) == "Command handler for '" \o t \o "' already registered."
QueryAlreadyRegistered(t) == "Query handler for '" \o t \o "' already registered."

\* A registry that lets a second command or query handler take the place of
\* the first.
register_Overwriting(reg, handlerClass, targetType, handlerType) ==
    LET field == CASE handlerType = "command" -> "commandHandlersMap"
                   [] handlerType = "query" -> "queryHandlersMap"
                   [] OTHER -> "eventHandlersMap"
        value == IF handlerType # "event" THEN handlerClass
                 ELSE Append(IF MapHas(reg.eventHandlersMap, targetType)
                             THEN MapGet(reg.eventHandlersMap, targetType) ELSE <<>>,
                             handlerClass)
    IN  [st |-> registerServiceClass([reg EXCEPT ![field] = MapSet(@, targetType, value)],
                                     handlerClass),
         ok |-> TRUE, err |-> ""]

\* A registry that keeps each event handler class once per event type.
register_EventOnce(reg, handlerClass, targetType, handlerType) ==
    LET existingEventHandlers ==
            IF MapHas(reg.eventHandlersMap, targetType)
            THEN MapGet(reg.eventHandlersMap, targetType) ELSE <<>>
    IN  IF handlerType = "event"
        THEN [st |-> registerServiceClass(
                        [reg EXCEPT !.eventHandlersMap =
                            MapSet(@, targetType,
                                   IF \E i \in DOMAIN existingEventHandlers :
                                         existingEventHandlers[i] = handlerClass
                                   THEN existingEventHandlers
                                   ELSE Append(existingEventHandlers, handlerClass))],
                        handlerClass),
              ok |-> TRUE, err |-> ""]
        ELSE register_Overwriting(reg, handlerClass, targetType, handlerType)

\* HandlerRegistry.register
register(reg, handlerClass, targetType, handlerType) ==
    CASE handlerType = "command" ->
            IF MapHas(reg.commandHandlersMap, targetType)
            THEN [st |-> reg, ok |-> FALSE, err |-> CommandAlreadyRegistered(targetType)]
            ELSE [st |-> registerServiceClass(
                            [reg EXCEPT !.commandHandlersMap = MapSet(@, targetType, handlerClass)],
                            handlerClass),
                  ok |-> TRUE, err |-> ""]
      [] handlerType = "query" ->
            IF MapHas(reg.queryHandlersMap, targetType)
            THEN [st |-> reg, ok |-> FALSE, err |-> QueryAlreadyRegistered(targetType)]
            ELSE [st |-> registerServiceClass(
                            [reg EXCEPT !.queryHandlersMap = MapSet(@, targetType, handlerClass)],
                            handlerClass),
                  ok |-> TRUE, err |-> ""]
      [] handlerType = "event" ->
            LET existingEventHandlers ==
                    IF MapHas(reg.eventHandlersMap, targetType)
                    THEN MapGet(reg.eventHandlersMap, targetType) ELSE <<>>
            IN  [st |-> registerServiceClass(
                            [reg EXCEPT !.eventHandlersMap =
                                MapSet(@, targetType, Append(existingEventHandlers, handlerClass))],
                            handlerClass),
                 ok |-> TRUE, err |-> ""]

\* CommandDispatcher.registerHandler / QueryDispatcher.registerHandler, on the
\* dispatcher's handlers Map; already is the message of the duplicate.
registerHandler(handlers, name, handlerIdentifier, already) ==
    IF MapHas(handlers, name)
    THEN [st |-> handlers, ok |-> FALSE, err |-> already]
    ELSE [st |-> MapSet(handlers, name, handlerIdentifier), ok |-> TRUE, err |-> ""]

\* EventDispatcher.registerHandler
registerEventHandler(handlers, eventName, handlerIdentifier) ==
    LET existingHandlers == IF MapHas(handlers, eventName) THEN MapGet(handlers, eventName)
                            ELSE <<>>
    IN  [st |-> MapSet(handlers, eventName, Append(existingHandlers, handlerIdentifier)),
         ok |-> TRUE, err |-> ""]

\* HandlerRegistry.getRegistrations: the command entries, then the query
\* entries, then the handlers of each event type, all in insertion order.
Registration(handlerClass, targetType, handlerType) ==
    [handlerClass |-> handlerClass, targetType |-> targetType, handlerType |-> handlerType]

RECURSIVE eventRegistrations(_, _)
eventRegistrations(m, i) ==
    IF i > Len(m) THEN <<>>
    ELSE [j \in 1..Len(m[i][2]) |-> Registration(m[i][2][j], m[i][1], "event")]
            \o eventRegistrations(m, i + 1)

getRegistrations(reg) ==
    [i \in 1..Len(reg.commandHandlersMap) |->
        Registration(reg.commandHandlersMap[i][2], reg.commandHandlersMap[i][1], "command")]
    \o [i \in 1..Len(reg.queryHandlersMap) |->
        Registration(reg.queryHandlersMap[i][2], reg.queryHandlersMap[i][1], "query")]
    \o eventRegistrations(reg.eventHandlersMap, 1)

\* HandlerRegistry.getServiceClasses
getServiceClasses(reg) == reg.serviceClasses

\* A clear that forgets the handlers but keeps the list of scanned classes.
HandlerRegistry_clear_KeepsClasses(reg) ==
    [EmptyRegistry EXCEPT !.serviceClasses = reg.serviceClasses]

\* HandlerRegistry.clear
HandlerRegistry_clear(reg) ==
    [commandHandlersMap |-> <<>>, queryHandlersMap |-> <<>>,
     eventHandlersMap |-> <<>>, serviceClasses |-> <<>>]

\* The record of a call: what was called with what, how it ended, and, for a
\* clear, how many registrations and scanned classes it dropped.
RegCall(op, kind, target, handler, r) ==
    [op |-> op, kind |-> kind, target |-> target, handler |-> handler,
     ok |-> r.ok, err |-> r.err, dropped |-> 0]

RegistryIdle ==
    /\ registry = EmptyRegistry
    /\ cmdHandlers = <<>> /\ qryHandlers = <<>> /\ evtHandlers = <<>>
    /\ lastReg = RegCall("new", "", "", NoId, [ok |-> TRUE, err |-> ""])
    /\ regCalls = 0

\* No get() call is being followed.  A call that is has the state
\* "running", frames is its stack of nested get() calls, innermost last, id
\* the identifier the outermost was called with and from the container it
\* found; when the outermost call has ended the state says how, val is the
\* object returned and err the message of the error thrown.
NoRun == [state |-> "none", id |-> NoId, from |-> EmptyContainer, frames |-> <<>>,
          val |-> 0, err |-> ""]

ContainerIdle ==
    /\ container = EmptyContainer
    /\ run = NoRun
    /\ meta \in MetaTables
    /\ calls = 0

\* What a promise settles with: the value handle() call number by returned,
\* the Error it threw (by > 0), or an Error of the framework with its message.
NoValue == [kind |-> "none", by |-> 0, msg |-> ""]
Result(by) == [kind |-> "result", by |-> by, msg |-> ""]
HandlerError(by) == [kind |-> "error", by |-> by, msg |-> ""]
FrameworkError(msg) == [kind |-> "error", by |-> 0, msg |-> msg]

\* No dispatch() has been called.
NoDispatch ==
    [op |-> "none", messages |-> <<>>, pos |-> 0, promise |-> "none", out |-> NoValue,
     gets |-> 0, calls |-> <<>>, all |-> NoValue, firm |-> FALSE]

DispatchIdle == disp = NoDispatch /\ inflight = <<>>

\* The outcome of a call on the orchestrator: via is how it ended, with a
\* return, a throw, an already rejected promise, or the promise of a
\* dispatcher's dispatch(); val is the object returned.
TmickCall(op, via, err, val) == [op |-> op, via |-> via, err |-> err, val |-> val]

\* new Tmick(), but for its container: the dispatchers are null, the flag is
\* false; n counts the calls made on the orchestrator.  promise and out are
\* the state of the promise that the last executeCommand, executeQuery or
\* dispatchEvents to reach its dispatcher has returned, and what it settled
\* with.
NewTmick ==
    [initialized |-> FALSE, commandDispatcher |-> 0, queryDispatcher |-> 0,
     eventDispatcher |-> 0, last |-> TmickCall("new", "return", "", 0), n |-> 0,
     promise |-> "none", out |-> NoValue]

\* No second orchestrator has been constructed.
NoOther ==
    [container |-> EmptyContainer, tmick |-> NewTmick,
     cmdHandlers |-> <<>>, qryHandlers |-> <<>>, evtHandlers |-> <<>>]

TmickIdle == tmick = NewTmick /\ other = NoOther

\* HandlerRegistry.register(handlerClass, targetType, handlerType)
Register(handlerClass, targetType, handlerType) ==
    LET r == register(registry, handlerClass, targetType, handlerType)
    IN  /\ regCalls < MaxRegistryCalls
        /\ registry' = r.st
        /\ lastReg' = RegCall("register", handlerType, targetType, handlerClass, r)
        /\ regCalls' = regCalls + 1
        /\ UNCHANGED <<cmdHandlers, qryHandlers, evtHandlers, containerVars, appVars>>

\* HandlerRegistry.registerServiceClass(serviceClass)
RegisterServiceClass(serviceClass) ==
    /\ regCalls < MaxRegistryCalls
    /\ registry' = registerServiceClass(registry, serviceClass)
    /\ lastReg' = RegCall("registerServiceClass", "", "", serviceClass, [ok |-> TRUE, err |-> ""])
    /\ regCalls' = regCalls + 1
    /\ UNCHANGED <<cmdHandlers, qryHandlers, evtHandlers, containerVars, appVars>>

\* commandDispatcher.registerHandler(commandName, handlerIdentifier)
CommandRegisterHandler(name, handlerIdentifier) ==
    LET r == registerHandler(cmdHandlers, name, handlerIdentifier, CommandAlreadyRegistered(name))
    IN  /\ regCalls < MaxRegistryCalls
        /\ cmdHandlers' = r.st
        /\ lastReg' = RegCall("registerHandler", "command", name, handlerIdentifier, r)
        /\ regCalls' = regCalls + 1
        /\ UNCHANGED <<registry, qryHandlers, evtHandlers, containerVars, appVars>>

\* queryDispatcher.registerHandler(queryName, handlerIdentifier)
QueryRegisterHandler(name, handlerIdentifier) ==
    LET r == registerHandler(qryHandlers, name, handlerIdentifier, QueryAlreadyRegistered(name))
    IN  /\ regCalls < MaxRegistryCalls
        /\ qryHandlers' = r.st
        /\ lastReg' = RegCall("registerHandler", "query", name, handlerIdentifier, r)
        /\ regCalls' = regCalls + 1
        /\ UNCHANGED <<registry, cmdHandlers, evtHandlers, containerVars, appVars>>

\* eventDispatcher.registerHandler(eventName, handlerIdentifier)
EventRegisterHandler(name, handlerIdentifier) ==
    LET r == registerEventHandler(evtHandlers, name, handlerIdentifier)
    IN  /\ regCalls < MaxRegistryCalls
        /\ evtHandlers' = r.st
        /\ lastReg' = RegCall("registerHandler", "event", name, handlerIdentifier, r)
        /\ regCalls' = regCalls + 1
        /\ UNCHANGED <<registry, cmdHandlers, qryHandlers, containerVars, appVars>>

\* HandlerRegistry.clear()
ClearRegistry ==
    /\ regCalls < MaxRegistryCalls
    /\ registry' = HandlerRegistry_clear(registry)
    /\ lastReg' = [RegCall("clear", "", "", NoId, [ok |-> TRUE, err |-> ""])
                   EXCEPT !.dropped = Len(getRegistrations(registry))
                                         + Len(getServiceClasses(registry))]
    /\ regCalls' = regCalls + 1
    /\ UNCHANGED <<cmdHandlers, qryHandlers, evtHandlers, containerVars, appVars>>

\* The container plays no part here: it stays as constructed.
InitRegistry ==
    /\ ContainerIdle
    /\ meta = MetaTable(R, FALSE)
    /\ RegistryIdle
    /\ DispatchIdle
    /\ TmickIdle

NextRegistry ==
    \/ \E h \in HandlerClasses, t \in TargetTypes, k \in HandlerTypes : Register(h, t, k)
    \/ \E h \in HandlerClasses : RegisterServiceClass(h)
    \/ \E t \in TargetTypes, h \in HandlerClasses : CommandRegisterHandler(t, h)
    \/ \E t \in TargetTypes, h \in HandlerClasses : QueryRegisterHandler(t, h)
    \/ \E t \in TargetTypes, h \in HandlerClasses : EventRegisterHandler(t, h)
    \/ ClearRegistry

\* The handler registry and the dispatchers' tables under every sequence of
\* registration calls.
SpecRegistry == InitRegistry /\ [][NextRegistry]_vars

(***************************************************************************)
(* The calls on the container.                                             *)
(***************************************************************************)
\* container.registerFactory(id, f, single)
RegisterFactory(id, f, single) ==
    /\ calls < MaxCalls
    /\ container' = registerFactory(container, id, f, single)
    /\ calls' = calls + 1
    /\ UNCHANGED <<meta, registryVars, appVars>>

\* getMetadataDependencies(ctor).map(getCanonicalIdentifier): the dependency
\* list registerByClass and the auto-scan pass to registerConstructor.
canonicalDependencies(cs, ctor) ==
    LET metadataDependencies == getMetadataDependencies(meta, ctor)
    IN  [j \in DOMAIN metadataDependencies |->
            IF metadataDependencies[j] = NoId THEN NoId
            ELSE getCanonicalIdentifier(cs, metadataDependencies[j])]

\* container.registerConstructor(id, ctor, single) when withDeps is FALSE: the
\* descriptor has no dependency list and the class is constructed without
\* arguments; container.registerConstructor(id, ctor, single, deps), deps the
\* canonical list above, when it is TRUE.
RegisterConstructor(id, ctor, single, withDeps) ==
    /\ calls < MaxCalls
    /\ container' = registerConstructor(container, id, ctor, single,
                          IF withDeps THEN canonicalDependencies(container, ctor) ELSE <<>>)
    /\ calls' = calls + 1
    /\ UNCHANGED <<meta, registryVars, appVars>>

\* container.registerInstance(id, obj) / CustomServiceContainer.registerValue
RegisterInstance(id, obj) ==
    /\ calls < MaxCalls
    /\ container' = registerInstance(container, id, obj)
    /\ calls' = calls + 1
    /\ UNCHANGED <<meta, registryVars, appVars>>

\* A registerByClass that hands the declared dependencies on as written.
registerByClass_Declared(cs, ctor, single) ==
    registerConstructor(cs, ctor, ctor, single, getMetadataDependencies(meta, ctor))

\* CustomServiceContainer.registerByClass
registerByClass(cs, ctor, single) ==
    registerConstructor(cs, ctor, ctor, single, canonicalDependencies(cs, ctor))

\* container.registerByClass(ctor, single)
RegisterByClass(ctor, single) ==
    /\ calls < MaxCalls
    /\ container' = registerByClass(container, ctor, single)
    /\ calls' = calls + 1
    /\ UNCHANGED <<meta, registryVars, appVars>>

\* The engine's call stack holds far more nested calls than any cycle of
\* descriptors is long, and how many it holds differs from one build to the
\* next.  A resolution that runs into a cycle leaves the container it leaves
\* with every deeper stack exactly when a stack of MaxStack calls and one of
\* DeepStack calls leave the same; one that constructs an object on every
\* round of the cycle leaves a heap that grows with the stack.
DeepStack == MaxStack + MaxStack
Overflowing(cs, id) == get(cs, id, MaxStack).err = StackOverflow
SettlesWhateverTheStack(cs, id) == get(cs, id, DeepStack).cs = get(cs, id, MaxStack).cs

\* container.get(id), whether it returns or throws.  The heap is bounded
\* where the call starts; a call that overflows the stack while it constructs
\* objects fills the heap beyond every bound and has no step.
Get(id) ==
    /\ Len(container.heap) < MaxHeap
    /\ Overflowing(container, id) => SettlesWhateverTheStack(container, id)
    /\ container' = get(container, id, MaxStack).cs
    /\ UNCHANGED <<meta, calls, registryVars, appVars>>

\* container.clear()
Clear ==
    /\ calls < MaxCalls
    /\ container' = clear(container)
    /\ calls' = calls + 1
    /\ UNCHANGED <<meta, registryVars, appVars>>

Init == ContainerIdle /\ RegistryIdle /\ DispatchIdle /\ TmickIdle

\* A class is registered under itself by registerByClass, and under a string
\* by registerConstructor with the default lifetime (singleton = true);
\* registerFactory and registerInstance are called with a string or a Token.
Next ==
    \/ \E id \in Ids \ Classes, f \in FactoryNames, single \in BOOLEAN :
          RegisterFactory(id, f, single)
    \/ \E id \in UserStrings, ctor \in Classes, withDeps \in BOOLEAN :
          RegisterConstructor(id, ctor, TRUE, withDeps)
    \/ \E id \in Ids \ Classes, obj \in Externals : RegisterInstance(id, obj)
    \/ \E ctor \in Classes, single \in BOOLEAN : RegisterByClass(ctor, single)
    \/ \E id \in Ids : Get(id)
    \/ Clear

\* The container under every sequence of calls.
Spec == Init /\ [][Next]_vars

\* A process in which class A carries no decorator: B is @Injectable('s') with
\* its parameter marked A, and A has no metadata.
InitPlain ==
    /\ container = EmptyContainer
    /\ run = NoRun
    /\ meta = [n \in ClassNames \cup DispatcherNames |->
                 CASE n = "A" -> Metadata(FALSE, NoId, TRUE, <<>>)
                   [] n = "B" -> Metadata(TRUE, Str("s"), TRUE, <<Cls("A")>>)
                   [] n = "C" -> Metadata(FALSE, NoId, TRUE, <<Cls("B"), R>>)
                   [] OTHER -> Metadata(TRUE, Cls(n), TRUE, <<ISERVICECONTAINER_TOKEN>>)]
    /\ calls = 0
    /\ RegistryIdle /\ DispatchIdle /\ TmickIdle

\* The container of that process under every sequence of calls.
SpecPlain == InitPlain /\ [][Next]_vars

(***************************************************************************)
(* get() call by call.  A get() that neither finds its instance in the     *)
(* cache nor throws stays on the call stack while the dependencies of its  *)
(* descriptor are resolved, each by a nested get(), and constructs its     *)
(* object when the last of them has returned.  A step is what happens      *)
(* between one call or return of get() and the next.  No call of the       *)
(* container catches an error, so a throw ends the outermost call.  The    *)
(* engine has room for MaxStack nested get() calls: the call that would be *)
(* one more throws its RangeError.                                         *)
(***************************************************************************)
\* get(id) on the stack: canon and d are the canonical identifier and the
\* descriptor it has read, auto is whether it is in handleAutoRegistration,
\* deps the identifiers it has to resolve, j the one it is at and vals the
\* objects it has for those before j.
Frame(id, canon, d, auto, deps) ==
    [id |-> id, canon |-> canon, d |-> d, auto |-> auto, deps |-> deps, j |-> 1,
     vals |-> <<>>]

\* What a step leaves: the container, the stack and, once the outermost
\* call has ended, its outcome.
Running(cs, frames) ==
    [cs |-> cs, state |-> "running", frames |-> frames, val |-> 0, err |-> ""]
Returned(cs, obj) ==
    [cs |-> cs, state |-> "returned", frames |-> <<>>, val |-> obj, err |-> ""]
Thrown(cs, e) ==
    [cs |-> cs, state |-> "thrown", frames |-> <<>>, val |-> 0, err |-> e]

\* A map that calls its callback for the same entry again.
nextDependency_Again(frame, obj) == frame

\* canonicalDependencies.map(...): the callback has returned obj for entry j,
\* and map goes on to the next entry.
nextDependency(frame, obj) == [frame EXCEPT !.vals = Append(@, obj), !.j = @ + 1]

\* return instance, to the get() that is now innermost on the stack or to
\* the caller of the outermost.
getReturns(cs, frames, obj) ==
    IF frames = <<>> THEN Returned(cs, obj)
    ELSE Running(cs, [frames EXCEPT ![Len(frames)] = nextDependency(@, obj)])

\* this.resolveService(d), called by get(id) or, auto being TRUE, by
\* handleAutoRegistration(id): it returns the instance of the descriptor,
\* throws, or goes on to the dependencies of the factory or the constructor.
resolveServiceCalled(cs, frames, id, canon, d, auto) ==
    IF d.instance # 0
    THEN getReturns(IF ~auto /\ d.singleton THEN CacheInstance(cs, canon, d.instance) ELSE cs,
                    frames, d.instance)
    ELSE IF d.factory # ""
    THEN Running(cs, Append(frames, Frame(id, canon, d, auto, FactoryDeps(d.factory))))
    ELSE IF d.type = "constructor" /\ d.ctor = ""
    THEN Thrown(cs, "Cannot resolve service '" \o getIdentifierName(d.identifier)
                        \o "': No factory, constructor, or instance provided.")
    ELSE Running(cs, Append(frames, Frame(id, canon, d, auto, d.deps)))

\* this.get(id) is called with frames on the stack, and runs up to its
\* return, its throw or the first get() it calls in turn.
getCalled(cs, frames, id) ==
    LET canon == getCanonicalIdentifier(cs, id)
        descriptor == cs.services[canon]
    IN  IF Len(frames) = MaxStack THEN Thrown(cs, StackOverflow)
        ELSE IF canon \in cs.cached THEN getReturns(cs, frames, cs.instances[canon])
        ELSE IF descriptor.type # "none"
        THEN resolveServiceCalled(cs, frames, id, canon, descriptor, FALSE)
        ELSE IF ~(id.kind = "class" /\ meta[id.name].injectable)
        THEN Thrown(cs, NotRegistered(id))
        ELSE LET m == meta[id.name]
                 serviceId == IF m.id # NoId THEN m.id ELSE id
                 deps == [j \in DOMAIN getMetadataDependencies(meta, id) |->
                             IF getMetadataDependencies(meta, id)[j] = NoId THEN NoId
                             ELSE getCanonicalIdentifier(
                                      cs, getMetadataDependencies(meta, id)[j])]
                 autoDescriptor == ConstructorServiceDescriptor(serviceId, id, m.singleton,
                                                                deps)
                 c0 == SetService(cs, serviceId, autoDescriptor)
                 c1 == IF serviceId # id THEN SetService(c0, id, autoDescriptor) ELSE c0
             IN  resolveServiceCalled(c1, frames, id, canon, autoDescriptor, TRUE)

\* The innermost get() has all its dependencies: the factory or the
\* constructor makes the object, get() or handleAutoRegistration caches it
\* for a singleton, and the call returns.
serviceResolved(cs, frames) ==
    LET top == frames[Len(frames)]
        d == top.d
        c == Construct(cs, d.identifier,
                       IF d.factory # "" THEN <<"factory", d.factory>>
                       ELSE <<"class", IF d.ctor # "" THEN d.ctor ELSE "Object">>,
                       top.vals)
        set == IF ~d.singleton THEN c.cs
               ELSE IF top.auto
               THEN CacheInstance(CacheInstance(c.cs, d.identifier, c.val), top.id, c.val)
               ELSE CacheInstance(c.cs, top.canon, c.val)
    IN  getReturns(set, SubSeq(frames, 1, Len(frames) - 1), c.val)

\* The next step of the innermost get(): the get() of its next dependency,
\* nothing for a hole of the dependency list, or the construction.
getGoesOn(cs, frames) ==
    LET top == frames[Len(frames)]
    IN  IF top.j > Len(top.deps) THEN serviceResolved(cs, frames)
        ELSE IF top.deps[top.j] = NoId
        THEN Running(cs, [frames EXCEPT ![Len(frames)] = nextDependency(@, 0)])
        ELSE getCalled(cs, frames, top.deps[top.j])

\* What step r of the get(id) that found the container from leaves.
Went(r, id, from) ==
    /\ container' = r.cs
    /\ run' = [state |-> r.state, id |-> id, from |-> from, frames |-> r.frames,
               val |-> r.val, err |-> r.err]
    /\ UNCHANGED <<meta, calls, registryVars, disp, tmick, other, inflight>>

\* container.get(id) is called, no other get() being under way; the heap is
\* bounded where the call starts, and a call that constructs an object on
\* every round of a cycle is not followed, as in Get.
GetStarts(id) ==
    /\ run.state # "running"
    /\ Len(container.heap) < MaxHeap
    /\ Overflowing(container, id) => SettlesWhateverTheStack(container, id)
    /\ Went(getCalled(container, <<>>, id), id, container)

\* The get() under way takes its next step.
GetGoesOn ==
    /\ run.state = "running"
    /\ Went(getGoesOn(container, run.frames), run.id, run.from)

\* Registrations that make cycles, made while no get() is under way: the
\* factory mk, which asks for 's', under 's' or R; B or C under 's', and B or
\* C with the other lifetime; then get() followed call by call.
NextResolve ==
    \/ /\ run.state # "running"
       /\ \/ \E id \in {Str("s"), R}, single \in BOOLEAN : RegisterFactory(id, "mk", single)
          \/ \E ctor \in {Cls("B"), Cls("C")} : RegisterConstructor(Str("s"), ctor, TRUE, TRUE)
          \/ RegisterInstance(R, 1)
          \/ \E ctor \in {Cls("B"), Cls("C")} : RegisterByClass(ctor, FALSE)
          \/ Clear
    \/ \E id \in {Str("s"), R, Cls("B"), Cls("C")} : GetStarts(id)
    \/ GetGoesOn

\* The engine runs a call that has been made to its end: a get() under way
\* takes its next step.
SpecResolve == Init /\ [][NextResolve]_vars /\ WF_vars(GetGoesOn)

(***************************************************************************)
(* dispatch() of the three dispatchers.  A dispatch is an async function:  *)
(* the action of the call runs it up to its first await, where it returns  *)
(* to its caller; a handler's promise settles in an action of its own, and *)
(* the dispatch goes on after its await in another, a microtask later.     *)
(* disp.all is what Promise.all of the event in hand is rejected with, as  *)
(* the rejections so far decide it.  disp.firm says that they decide it    *)
(* for good: a callback was rejected as it was called, or the promises of  *)
(* the callbacks have taken up those handle() returned (the callbacks are  *)
(* async functions, whose promise takes up the one returned in a microtask *)
(* of its own), so that the first rejection to come is the first that      *)
(* Promise.all sees.  Until then the rejected promises are taken up in the *)
(* order of the list, and the first of the list is the one it sees.        *)
(* disp.calls lists the callbacks started so far: the event                *)
(* they serve (1 for a command or query), the identifier resolved, the     *)
(* handler object (0 when get() threw and handle() was never called), the  *)
(* state of the promise of handle() and what it settled with.              *)
(***************************************************************************)
\* The identifiers registered as handlers: A and B resolve (A a singleton, B
\* by its metadata), C is not injectable and does not.
DispatchHandlers == Classes

Callback(event, identifier, handler, state, out) ==
    [event |-> event, identifier |-> identifier, handler |-> handler,
     state |-> state, out |-> out]

NoHandlerRegistered(kind, name) ==
    "No handler registered for " \o kind \o " '" \o name \o "'."

\* What dispatch() makes of r, the outcome of container.get(): a throw of
\* get() rejects its promise, and so does a throw of handle(); otherwise
\* dispatch() awaits the promise handle() returned.
handled(r, kind, name, handlerIdentifier, throws, d) ==
    LET start == [d EXCEPT !.op = kind, !.messages = <<name>>, !.pos = 1, !.gets = 1,
                           !.calls = <<>>, !.promise = "pending", !.out = NoValue,
                           !.all = NoValue, !.firm = FALSE]
    IN  IF ~r.ok
        THEN [cs |-> r.cs,
              d |-> [start EXCEPT !.promise = "rejected", !.out = FrameworkError(r.err)]]
        ELSE IF throws
        THEN [cs |-> r.cs,
              d |-> [start EXCEPT !.promise = "rejected", !.out = HandlerError(1),
                                  !.calls = <<Callback(1, handlerIdentifier, r.val,
                                                       "rejected", HandlerError(1))>>]]
        ELSE [cs |-> r.cs,
              d |-> [start EXCEPT !.calls = <<Callback(1, handlerIdentifier, r.val,
                                                       "running", NoValue)>>]]

\* A dispatch that calls handle() a second time when the first call throws.
handleOnce_Retry(cs, kind, name, handlerIdentifier, throws, d) ==
    LET r == get(cs, handlerIdentifier, MaxStack)
        start == [d EXCEPT !.op = kind, !.messages = <<name>>, !.pos = 1, !.gets = 1,
                           !.calls = <<>>, !.promise = "pending", !.out = NoValue,
                           !.all = NoValue, !.firm = FALSE]
    IN  IF ~r.ok
        THEN [cs |-> r.cs,
              d |-> [start EXCEPT !.promise = "rejected", !.out = FrameworkError(r.err)]]
        ELSE [cs |-> r.cs,
              d |-> [start EXCEPT !.calls =
                        IF throws
                        THEN <<Callback(1, handlerIdentifier, r.val, "rejected",
                                        HandlerError(1)),
                               Callback(1, handlerIdentifier, r.val, "running", NoValue)>>
                        ELSE <<Callback(1, handlerIdentifier, r.val, "running", NoValue)>>]]

\* CommandDispatcher.dispatch / QueryDispatcher.dispatch from the handler's
\* identifier on, up to the await of handle(): container.get(), then one call
\* of handle(); throws says whether handle() throws before it returns a
\* promise.  A throw of either rejects the promise of dispatch().
handleOnce(cs, kind, name, handlerIdentifier, throws, d) ==
    handled(get(cs, handlerIdentifier, MaxStack), kind, name, handlerIdentifier, throws, d)

\* A dispatcher that falls back on class A when the name has no handler.
CommandDispatcher_dispatch_Fallback(cs, handlers, kind, name, throws, d) ==
    handleOnce(cs, kind, name,
               IF MapHas(handlers, name) THEN MapGet(handlers, name) ELSE Cls("A"),
               throws, d)

\* CommandDispatcher.dispatch / QueryDispatcher.dispatch, up to the await of
\* handle(): kind is 'command' or 'query', handlers the dispatcher's Map.  An
\* absent entry reads as undefined, which is falsy.
CommandDispatcher_dispatch(cs, handlers, kind, name, throws, d) ==
    LET handlerIdentifier == IF MapHas(handlers, name) THEN MapGet(handlers, name) ELSE NoId
    IN  IF handlerIdentifier = NoId
        THEN [cs |-> cs,
              d |-> [d EXCEPT !.op = kind, !.messages = <<name>>, !.pos = 1, !.gets = 0,
                              !.calls = <<>>, !.promise = "rejected",
                              !.out = FrameworkError(NoHandlerRegistered(kind, name)),
                              !.all = NoValue, !.firm = FALSE]]
        ELSE handleOnce(cs, kind, name, handlerIdentifier, throws, d)

\* EventDispatcher.dispatch, the map() over the handlers of one event: each
\* callback runs get() and handle() at once, in the order of the list, and a
\* throw of either rejects the promise of that callback alone.  throwers are
\* the places in the list whose handle() throws before it returns a promise.
RECURSIVE startCallbacks(_, _, _, _, _, _)
startCallback(r, callbacks, event, identifiers, j, throwers) ==
    LET by == Len(callbacks) + 1
        c == IF ~r.ok
             THEN Callback(event, identifiers[j], 0, "rejected", FrameworkError(r.err))
             ELSE IF j \in throwers
             THEN Callback(event, identifiers[j], r.val, "rejected", HandlerError(by))
             ELSE Callback(event, identifiers[j], r.val, "running", NoValue)
    IN  startCallbacks(r.cs, Append(callbacks, c), event, identifiers, j + 1, throwers)

\* The callbacks of the list from place j on; r above is the outcome of
\* container.get() in the callback of place j.
startCallbacks(cs, callbacks, event, identifiers, j, throwers) ==
    IF j > Len(identifiers) THEN [cs |-> cs, callbacks |-> callbacks]
    ELSE startCallback(get(cs, identifiers[j], MaxStack), callbacks, event, identifiers,
                       j, throwers)

\* The least place of a non-empty set of places.
First(places) == CHOOSE k \in places : \A l \in places : k <= l

\* The callbacks of the event in hand.
InHand(d) == {l \in DOMAIN d.calls : d.calls[l].event = d.pos}

\* A wait that ends with the first callback of the event to be fulfilled.
PromiseAll_Race(d) ==
    IF d.all # NoValue THEN "rejected"
    ELSE IF InHand(d) = {} \/ \E l \in InHand(d) : d.calls[l].state = "fulfilled"
    THEN "fulfilled"
    ELSE "pending"

\* A wait that takes a rejected callback for a completed one, as
\* Promise.allSettled does.
PromiseAll_Isolating(d) ==
    IF \A l \in InHand(d) : d.calls[l].state # "running" THEN "fulfilled" ELSE "pending"

\* Promise.all(promises) of the event in hand: rejected by the first of the
\* callbacks' promises to be rejected, d.all being the reason it is rejected
\* with; fulfilled once every callback is, at once when there is
\* none.
PromiseAll(d) ==
    IF d.all # NoValue THEN "rejected"
    ELSE IF \A l \in InHand(d) : d.calls[l].state = "fulfilled" THEN "fulfilled"
    ELSE "pending"

\* await Promise.all(promises) of event i, s being the container and the
\* callbacks that map() leaves.  An await gives up the thread whatever it
\* awaits, so dispatch() returns to its caller here with its promise pending.
\* Of the callbacks rejected before map() returned, the first of the list is
\* the one that rejects Promise.all, whatever is rejected later.
awaitAll(s, d, i) ==
    LET rejected == {k \in DOMAIN s.callbacks :
                        s.callbacks[k].event = i /\ s.callbacks[k].state = "rejected"}
        started == [d EXCEPT !.calls = s.callbacks, !.pos = i,
                             !.gets = @ + Len(s.callbacks) - Len(d.calls),
                             !.firm = FALSE]
    IN  [cs |-> s.cs,
         d |-> IF rejected = {} THEN started
               ELSE [started EXCEPT !.all = s.callbacks[First(rejected)].out,
                                    !.firm = TRUE]]

\* An event dispatcher that goes on to the next event without waiting.
RECURSIVE EventDispatcher_dispatch_NoWait(_, _, _, _, _)
EventDispatcher_dispatch_NoWait(cs, handlers, d, i, throwers) ==
    IF i > Len(d.messages)
    THEN [cs |-> cs, d |-> [d EXCEPT !.pos = i, !.promise = "fulfilled"]]
    ELSE LET identifiers == IF MapHas(handlers, d.messages[i])
                            THEN MapGet(handlers, d.messages[i]) ELSE <<>>
             s == awaitAll(startCallbacks(cs, d.calls, i, identifiers, 1, throwers), d, i)
         IN  IF i = Len(d.messages) THEN s
             ELSE EventDispatcher_dispatch_NoWait(s.cs, handlers, s.d, i + 1, {})

\* An event dispatcher that stops at an event nobody handles.
EventDispatcher_dispatch_Strict(cs, handlers, d, i, throwers) ==
    IF i > Len(d.messages)
    THEN [cs |-> cs, d |-> [d EXCEPT !.pos = i, !.promise = "fulfilled"]]
    ELSE LET identifiers == IF MapHas(handlers, d.messages[i])
                            THEN MapGet(handlers, d.messages[i]) ELSE <<>>
         IN  IF identifiers = <<>>
             THEN [cs |-> cs,
                   d |-> [d EXCEPT !.pos = i, !.promise = "rejected",
                             !.out = FrameworkError(NoHandlerRegistered("event",
                                                                        d.messages[i]))]]
             ELSE awaitAll(startCallbacks(cs, d.calls, i, identifiers, 1, throwers), d, i)

\* EventDispatcher.dispatch, one round of the for loop: the lookup of event
\* i, the map() over its handlers and the await of Promise.all, where the
\* function is suspended; an event without handlers awaits Promise.all([]).
\* Past the last event the function returns and its promise is fulfilled;
\* no Promise.all is awaited any more.
EventDispatcher_dispatch(cs, handlers, d, i, throwers) ==
    IF i > Len(d.messages)
    THEN [cs |-> cs, d |-> [d EXCEPT !.pos = i, !.promise = "fulfilled", !.firm = FALSE]]
    ELSE LET handlerIdentifiers == IF MapHas(handlers, d.messages[i])
                                   THEN MapGet(handlers, d.messages[i]) ELSE <<>>
         IN  awaitAll(startCallbacks(cs, d.calls, i, handlerIdentifiers, 1, throwers),
                      d, i)

\* EventDispatcher.dispatch taken up again after its await, once Promise.all
\* is settled: the await throws what Promise.all was rejected with, which
\* rejects the promise of dispatch(); or the loop goes on to the next event.
resume(cs, handlers, d, throwers) ==
    IF PromiseAll(d) = "rejected"
    THEN [cs |-> cs, d |-> [d EXCEPT !.promise = "rejected", !.out = d.all,
                                     !.firm = FALSE]]
    ELSE EventDispatcher_dispatch(cs, handlers, d, d.pos + 1, throwers)

\* The promise that handle() call k returned settles; the dispatch that
\* awaits it goes on in a later microtask.  In a dispatch of events a
\* rejection decides what Promise.all of the event in hand is rejected with.
\* Once d.firm the callbacks' promises follow those of handle(): the first
\* rejection to come is the one, and no later one takes its place.  While
\* ~d.firm no microtask has run since map() returned: the promises rejected
\* in that stretch are all taken up, in the order of the list, by the jobs
\* of CallbacksFollow, so that the first of the list among them is the one.
settle(d, k, state, out) ==
    LET settled == [d EXCEPT !.calls[k].state = state, !.calls[k].out = out]
        rejected == {l \in InHand(settled) : settled.calls[l].state = "rejected"}
    IN  IF d.promise # "pending" \/ d.op # "event" \/ state # "rejected" THEN settled
        ELSE IF d.firm
        THEN IF d.all = NoValue THEN [settled EXCEPT !.all = out] ELSE settled
        ELSE [settled EXCEPT !.all = IF rejected = {} THEN out
                                     ELSE settled.calls[First(rejected)].out]

\* CommandDispatcher.dispatch / QueryDispatcher.dispatch taken up again after
\* the await of handle(): return await settles the promise of dispatch() as
\* the promise handle() returned has settled.
returnAwait(d) ==
    [d EXCEPT !.promise = d.calls[Len(d.calls)].state, !.out = d.calls[Len(d.calls)].out]

\* A new dispatch() is called once the promise of the one before is settled.
CanDispatch == disp.promise # "pending" /\ regCalls < MaxRegistryCalls

\* A call of dispatch() on a dispatcher, r what it does up to its first
\* await: the container and the dispatch it leaves.
Dispatched(r) ==
    /\ CanDispatch
    /\ Len(r.cs.heap) <= MaxHeap
    /\ container' = r.cs
    /\ disp' = r.d
    /\ regCalls' = regCalls + 1
    /\ UNCHANGED <<meta, calls, registry, cmdHandlers, qryHandlers, evtHandlers,
                   lastReg, tmick, other, run, inflight>>

\* commandDispatcher.dispatch(command), command.constructor.name = name
DispatchCommand(name, throws) ==
    Dispatched(CommandDispatcher_dispatch(container, cmdHandlers, "command", name,
                                          throws, disp))

\* queryDispatcher.dispatch(query), query.constructor.name = name
DispatchQuery(name, throws) ==
    Dispatched(CommandDispatcher_dispatch(container, qryHandlers, "query", name,
                                          throws, disp))

\* eventDispatcher.dispatch(events), events[i].constructor.name = names[i]:
\* the call runs the function up to the await of the first event.
DispatchEvents(names, throwers) ==
    Dispatched(EventDispatcher_dispatch(
                   container, evtHandlers,
                   [disp EXCEPT !.op = "event", !.messages = names, !.pos = 0,
                                !.gets = 0, !.calls = <<>>, !.promise = "pending",
                                !.out = NoValue,
                                !.all = NoValue, !.firm = FALSE],
                   1, throwers))

\* The heap has room for the containers and the dispatchers of two
\* orchestrators, and for the dispatchers of a second scan, besides.
TmickHeap == MaxHeap + 12

\* The promise handle() call k returned is fulfilled.
HandlerFulfils(k) ==
    /\ k \in DOMAIN disp.calls
    /\ disp.calls[k].state = "running"
    /\ disp' = settle(disp, k, "fulfilled", Result(k))
    /\ UNCHANGED <<containerVars, registryVars, tmick, other, run, inflight>>

\* The promise handle() call k returned is rejected.
HandlerRejects(k) ==
    /\ k \in DOMAIN disp.calls
    /\ disp.calls[k].state = "running"
    /\ disp' = settle(disp, k, "rejected", HandlerError(k))
    /\ UNCHANGED <<containerVars, registryVars, tmick, other, run, inflight>>

\* The container and the dispatch that r, the loop of a dispatch of events
\* taken up again, leaves.
Resumed(r) ==
    /\ Len(r.cs.heap) <= TmickHeap
    /\ container' = r.cs
    /\ disp' = r.d

\* The microtask in which a dispatch of events suspended at its await goes
\* on, Promise.all of the event in hand being settled; throwers are the
\* handlers of the next event that throw when they are called.
DispatchResumes(throwers) ==
    /\ disp.op = "event" /\ disp.promise = "pending"
    /\ PromiseAll(disp) # "pending"
    /\ Resumed(resume(container, evtHandlers, disp, throwers))
    /\ UNCHANGED <<meta, calls, registryVars, tmick, other, run, inflight>>

\* The microtask in which a dispatch of a command or query suspended at its
\* await goes on, the promise handle() returned being settled.
DispatchReturns ==
    /\ disp.op \in {"command", "query"} /\ disp.promise = "pending"
    /\ disp.calls # <<>> /\ disp.calls[Len(disp.calls)].state # "running"
    /\ disp' = returnAwait(disp)
    /\ UNCHANGED <<containerVars, registryVars, tmick, other, run, inflight>>

\* The microtasks in which the promises of the callbacks of the event in
\* hand take up the promises handle() returned, whatever has become of
\* those: the jobs were queued as the callbacks returned, and run when the
\* caller of dispatch() gives up the thread.  The rejections that came before
\* have fixed what Promise.all is rejected with; the next to count is the
\* first to come.
CallbacksFollow ==
    /\ disp.op = "event" /\ disp.promise = "pending"
    /\ ~disp.firm
    /\ disp' = [disp EXCEPT !.firm = TRUE]
    /\ UNCHANGED <<containerVars, registryVars, tmick, other, run, inflight>>

\* The lists of events dispatched.
EventLists == UNION {[1..n -> TargetTypes] : n \in 0..MaxEvents}

\* The handlers that may throw as they are called: places in the list of
\* event i.
ThrowersAt(handlers, names, i) ==
    IF i \in DOMAIN names /\ MapHas(handlers, names[i])
    THEN SUBSET (1..Len(MapGet(handlers, names[i])))
    ELSE {{}}

NextDispatch ==
    \/ \E h \in {Cls("A"), Cls("C")} : CommandRegisterHandler("T1", h)
    \/ \E h \in {Cls("A"), Cls("C")} : QueryRegisterHandler("T1", h)
    \/ \E t \in TargetTypes, h \in DispatchHandlers : EventRegisterHandler(t, h)
    \/ \E t \in TargetTypes, throws \in BOOLEAN : DispatchCommand(t, throws)
    \/ \E t \in TargetTypes, throws \in BOOLEAN : DispatchQuery(t, throws)
    \/ \E names \in EventLists :
          \E throwers \in ThrowersAt(evtHandlers, names, 1) : DispatchEvents(names, throwers)
    \/ \E k \in DOMAIN disp.calls : HandlerFulfils(k)
    \/ \E k \in DOMAIN disp.calls : HandlerRejects(k)
    \/ \E throwers \in ThrowersAt(evtHandlers, disp.messages, disp.pos + 1) :
          DispatchResumes(throwers)
    \/ DispatchReturns
    \/ CallbacksFollow

\* The dispatchers over a container of decorated classes, under every
\* sequence of registerHandler and dispatch calls and every order in which
\* the handlers' promises settle.
SpecDispatch == InitRegistry /\ [][NextDispatch]_vars

\* The event dispatcher once registerHandler has been called for T1 with A,
\* with B and with A again: three callbacks for every event T1.
InitEvents ==
    /\ ContainerIdle
    /\ meta = MetaTable(R, FALSE)
    /\ registry = EmptyRegistry
    /\ cmdHandlers = <<>> /\ qryHandlers = <<>>
    /\ evtHandlers = registerEventHandler(
                         registerEventHandler(
                             registerEventHandler(<<>>, "T1", Cls("A")).st,
                             "T1", Cls("B")).st,
                         "T1", Cls("A")).st
    /\ lastReg = RegCall("new", "", "", NoId, [ok |-> TRUE, err |-> ""])
    /\ regCalls = 0
    /\ DispatchIdle
    /\ TmickIdle

NextEvents ==
    \/ EventRegisterHandler("T2", Cls("A"))
    \/ \E names \in EventLists :
          \E throwers \in ThrowersAt(evtHandlers, names, 1) : DispatchEvents(names, throwers)
    \/ \E k \in DOMAIN disp.calls : HandlerFulfils(k)
    \/ \E k \in DOMAIN disp.calls : HandlerRejects(k)
    \/ \E throwers \in ThrowersAt(evtHandlers, disp.messages, disp.pos + 1) :
          DispatchResumes(throwers)
    \/ CallbacksFollow

\* A dispatch of events is suspended at an await whose Promise.all is
\* settled: the microtask that takes it up again is queued.
ResumeQueued ==
    /\ disp.op = "event" /\ disp.promise = "pending"
    /\ PromiseAll(disp) # "pending"
    /\ \E throwers \in ThrowersAt(evtHandlers, disp.messages, disp.pos + 1) :
          Len(resume(container, evtHandlers, disp, throwers).cs.heap) <= TmickHeap

\* The event dispatcher with three handlers for one type of event, under
\* every list of events and every order in which the handlers' promises
\* settle.  The engine runs every microtask it has queued, so the steps
\* CallbacksFollow and DispatchResumes are weakly fair: a behaviour in which
\* one stays queued takes it.  For DispatchResumes that is WF_vars of the
\* step written out, with ResumeQueued for its ENABLED.
SpecEvents ==
    /\ InitEvents
    /\ [][NextEvents]_vars
    /\ WF_vars(CallbacksFollow)
    /\ \/ []<>(~ResumeQueued)
       \/ []<><<\E throwers \in ThrowersAt(evtHandlers, disp.messages, disp.pos + 1) :
                   DispatchResumes(throwers)>>_vars

(***************************************************************************)
(* Tmick, the orchestrator (tmick.ts).  Its container is the variable      *)
(* container, the registry it scans and clears is the process-wide         *)
(* HandlerRegistry, and cmdHandlers, qryHandlers and evtHandlers are the   *)
(* tables of the dispatcher objects its three fields refer to: a dispatcher*)
(* the container has newly constructed starts with an empty table.         *)
(***************************************************************************)
NotInitialized == "Tmick Framework not initialized. Call initialize() first."
AlreadyInitialized == "Tmick Framework already initialized."
\* this.commandDispatcher.dispatch(...) while the field is null
NullDispatcher == "TypeError: Cannot read properties of null (reading 'dispatch')"

\* new CustomServiceContainer(), the second object of the heap, which the
\* constructor of Tmick registers under ISERVICECONTAINER_TOKEN.
ContainerObject == [src |-> <<"external", "container">>, args |-> <<>>]
TheContainer == Len(InitialHeap) + 1
NewTmickContainer ==
    registerInstance([EmptyContainer EXCEPT !.heap = Append(@, ContainerObject)],
                     ISERVICECONTAINER_TOKEN, TheContainer)

\* The registry once the modules are loaded: @Injectable has handed the
\* three dispatcher classes and the decorated classes A and B to
\* registerServiceClass.
LoadedRegistry ==
    [EmptyRegistry EXCEPT !.serviceClasses =
        <<CommandDispatcher, QueryDispatcher, EventDispatcher, Cls("A"), Cls("B")>>]

\* A scan that registers every class under itself alone.
RECURSIVE scanServiceClasses_ClassOnly(_, _, _)
scanServiceClasses_ClassOnly(cs, allServiceClasses, i) ==
    IF i > Len(allServiceClasses) THEN cs
    ELSE scanServiceClasses_ClassOnly(
             registerConstructor(cs, allServiceClasses[i], allServiceClasses[i],
                                 IF meta[allServiceClasses[i].name].injectable
                                 THEN meta[allServiceClasses[i].name].singleton ELSE TRUE,
                                 canonicalDependencies(cs, allServiceClasses[i])),
             allServiceClasses, i + 1)

RECURSIVE scanServiceClasses(_, _, _)
\* A scan that leaves alone every class the container already has a
\* descriptor for.
scanServiceClasses_Once(cs, allServiceClasses, i) ==
    IF i > Len(allServiceClasses) THEN cs
    ELSE IF cs.services[allServiceClasses[i]].type # "none"
    THEN scanServiceClasses(cs, allServiceClasses, i + 1)
    ELSE LET injectableMetadata == meta[allServiceClasses[i].name]
             singleton == IF injectableMetadata.injectable THEN injectableMetadata.singleton
                          ELSE TRUE
         IN  scanServiceClasses(
                 registerConstructor(cs, allServiceClasses[i], allServiceClasses[i], singleton,
                                     canonicalDependencies(cs, allServiceClasses[i])),
                 allServiceClasses, i + 1)

\* Tmick.autoScanAndRegisters, the for loop from class i of the list on.  A
\* class without 'cqrs:injectable-service' metadata is registered as a
\* singleton under itself alone.
scanServiceClasses(cs, allServiceClasses, i) ==
    IF i > Len(allServiceClasses) THEN cs
    ELSE LET serviceClass == allServiceClasses[i]
             injectableMetadata == meta[serviceClass.name]
             singleton == IF injectableMetadata.injectable THEN injectableMetadata.singleton
                          ELSE TRUE
             deps == canonicalDependencies(cs, serviceClass)
             c1 == registerConstructor(cs, serviceClass, serviceClass, singleton, deps)
             c2 == IF /\ injectableMetadata.injectable
                      /\ injectableMetadata.id # NoId
                      /\ injectableMetadata.id # serviceClass
                   THEN registerConstructor(c1, injectableMetadata.id, serviceClass,
                                            singleton, deps)
                   ELSE c1
         IN  scanServiceClasses(c2, allServiceClasses, i + 1)

\* The tables of the three dispatchers.
Tables(cmd, qry, evt) == [cmd |-> cmd, qry |-> qry, evt |-> evt]

\* A wiring that configures the command dispatcher alone.
RECURSIVE wireRegistrations_CommandsOnly(_, _, _)
wireRegistrations_CommandsOnly(tables, registrations, i) ==
    IF i > Len(registrations) THEN [tables |-> tables, ok |-> TRUE, err |-> ""]
    ELSE IF registrations[i].handlerType # "command"
    THEN wireRegistrations_CommandsOnly(tables, registrations, i + 1)
    ELSE IF MapHas(tables.cmd, registrations[i].targetType)
    THEN [tables |-> tables, ok |-> FALSE,
          err |-> CommandAlreadyRegistered(registrations[i].targetType)]
    ELSE wireRegistrations_CommandsOnly(
             [tables EXCEPT !.cmd = MapSet(@, registrations[i].targetType,
                                           registrations[i].handlerClass)],
             registrations, i + 1)

\* Tmick.autoScanAndRegisters, the forEach over getRegistrations() from
\* registration i on; the throw of a registerHandler ends it.
RECURSIVE wireRegistrations(_, _, _)
wireRegistrations(tables, registrations, i) ==
    IF i > Len(registrations) THEN [tables |-> tables, ok |-> TRUE, err |-> ""]
    ELSE LET g == registrations[i]
             r == CASE g.handlerType = "command" ->
                          registerHandler(tables.cmd, g.targetType, g.handlerClass,
                                          CommandAlreadyRegistered(g.targetType))
                    [] g.handlerType = "query" ->
                          registerHandler(tables.qry, g.targetType, g.handlerClass,
                                          QueryAlreadyRegistered(g.targetType))
                    [] OTHER ->
                          registerEventHandler(tables.evt, g.targetType, g.handlerClass)
             field == CASE g.handlerType = "command" -> "cmd"
                        [] g.handlerType = "query" -> "qry"
                        [] OTHER -> "evt"
         IN  IF ~r.ok THEN [tables |-> tables, ok |-> FALSE, err |-> r.err]
             ELSE wireRegistrations([tables EXCEPT ![field] = r.st], registrations, i + 1)

\* Tmick.autoScanAndRegisters from the forEach on: w is what the wiring of
\* the registrations leaves, cs the container with the three dispatchers
\* registered under their tokens.
wired(w, cs, tm) ==
    [cs |-> cs, tm |-> tm, tables |-> w.tables, ok |-> w.ok, err |-> w.err]

\* Tmick.autoScanAndRegisters from this.eventDispatcher = ... on, g being
\* the outcome of that get().
gotEventDispatcher(g, reg, tm, tables) ==
    IF ~g.ok THEN [cs |-> g.cs, tm |-> tm, tables |-> tables, ok |-> FALSE, err |-> g.err]
    ELSE wired(wireRegistrations(
                   IF g.val = tm.eventDispatcher THEN tables
                   ELSE [tables EXCEPT !.evt = <<>>],
                   getRegistrations(reg), 1),
               registerInstance(
                   registerInstance(
                       registerInstance(g.cs, COMMAND_DISPATCHER_TOKEN,
                                        tm.commandDispatcher),
                       QUERY_DISPATCHER_TOKEN, tm.queryDispatcher),
                   EVENT_DISPATCHER_TOKEN, g.val),
               [tm EXCEPT !.eventDispatcher = g.val])

\* Tmick.autoScanAndRegisters from this.queryDispatcher = ... on
gotQueryDispatcher(g, reg, tm, tables) ==
    IF ~g.ok THEN [cs |-> g.cs, tm |-> tm, tables |-> tables, ok |-> FALSE, err |-> g.err]
    ELSE gotEventDispatcher(get(g.cs, EventDispatcher, MaxStack), reg,
                            [tm EXCEPT !.queryDispatcher = g.val],
                            IF g.val = tm.queryDispatcher THEN tables
                            ELSE [tables EXCEPT !.qry = <<>>])

\* Tmick.autoScanAndRegisters from this.commandDispatcher = ... on
gotCommandDispatcher(g, reg, tm, tables) ==
    IF ~g.ok THEN [cs |-> g.cs, tm |-> tm, tables |-> tables, ok |-> FALSE, err |-> g.err]
    ELSE gotQueryDispatcher(get(g.cs, QueryDispatcher, MaxStack), reg,
                            [tm EXCEPT !.commandDispatcher = g.val],
                            IF g.val = tm.commandDispatcher THEN tables
                            ELSE [tables EXCEPT !.cmd = <<>>])

\* Tmick.autoScanAndRegisters.  A throw on the way leaves what was done
\* before it; a field that comes to refer to another dispatcher object
\* refers to an empty table.
autoScanAndRegisters(cs, reg, tm, tables) ==
    gotCommandDispatcher(
        get(scanServiceClasses(cs, getServiceClasses(reg), 1), CommandDispatcher, MaxStack),
        reg, tm, tables)

\* A second initialize() that passes for the first.
initialize_Again(tm) ==
    [tm EXCEPT !.initialized = TRUE, !.last = TmickCall("initialize", "return", "", 0)]

\* Tmick.initialize
initialize(tm) ==
    IF tm.initialized
    THEN [tm EXCEPT !.last = TmickCall("initialize", "throw", AlreadyInitialized, 0)]
    ELSE [tm EXCEPT !.initialized = TRUE,
                    !.last = TmickCall("initialize", "return", "", 0)]

\* A guard that lets every call through.
uninitialized_Open(tm) == FALSE

\* if (!this.initialized) of get, executeCommand, executeQuery,
\* dispatchEvents and getContainer
uninitialized(tm) == ~tm.initialized

\* Tmick.getDebugInfo; the array of names is given by the keys the names
\* come from, the order of the Map aside.
getDebugInfo(cs, reg, tm) ==
    LET registeredServiceIdentifiers ==
            [k \in {key \in Keys : cs.services[key].type # "none"} |-> getIdentifierName(k)]
        instanceCacheSize == Cardinality(cs.cached)
    IN  [registeredServices |-> registeredServiceIdentifiers,
         handlerRegistrations |-> getRegistrations(reg),
         serviceClassesRegisteredForScan |->
            [i \in DOMAIN getServiceClasses(reg) |-> getServiceClasses(reg)[i].name],
         initialized |-> tm.initialized,
         containerInfo |-> [registeredServiceIdentifiers |-> registeredServiceIdentifiers,
                            instanceCacheSize |-> instanceCacheSize]]

\* A dispose that leaves the handler registry as it is.
dispose_ContainerOnly(cs, reg, tm) ==
    [cs |-> clear(cs), reg |-> reg,
     tm |-> [tm EXCEPT !.initialized = FALSE, !.last = TmickCall("dispose", "return", "", 0)]]

\* Tmick.dispose
dispose(cs, reg, tm) ==
    [cs |-> clear(cs), reg |-> HandlerRegistry_clear(reg),
     tm |-> [tm EXCEPT !.initialized = FALSE, !.last = TmickCall("dispose", "return", "", 0)]]

\* A call on the orchestrator, counted.
Called(tm) == [tm EXCEPT !.n = @ + 1]
CanCall == tmick.n < MaxTmickCalls

\* What r, a call of autoScanAndRegisters, leaves.
Scanned(r) ==
    /\ CanCall
    /\ disp.promise # "pending"
    /\ Len(r.cs.heap) <= TmickHeap
    /\ container' = r.cs
    /\ cmdHandlers' = r.tables.cmd
    /\ qryHandlers' = r.tables.qry
    /\ evtHandlers' = r.tables.evt
    /\ tmick' = Called([r.tm EXCEPT !.last =
                           IF r.ok THEN TmickCall("autoScanAndRegisters", "return", "", 0)
                           ELSE TmickCall("autoScanAndRegisters", "throw", r.err, 0)])
    /\ UNCHANGED <<meta, calls, registry, lastReg, regCalls, disp, other, run, inflight>>

\* tmick.autoScanAndRegisters(), not called while a dispatch is in flight
AutoScanAndRegisters ==
    Scanned(autoScanAndRegisters(container, registry, tmick,
                                 Tables(cmdHandlers, qryHandlers, evtHandlers)))

\* tmick.initialize()
Initialize ==
    /\ CanCall
    /\ tmick' = Called(initialize(tmick))
    /\ UNCHANGED <<containerVars, registryVars, disp, other, run, inflight>>

\* return this.container.get(identifier), r being the outcome of that get()
Got(r) ==
    /\ Len(r.cs.heap) <= TmickHeap
    /\ container' = r.cs
    /\ tmick' = Called([tmick EXCEPT !.last =
                           IF r.ok THEN TmickCall("get", "return", "", r.val)
                           ELSE TmickCall("get", "throw", r.err, 0)])

\* tmick.get(id)
TmickGet(id) ==
    /\ CanCall
    /\ IF uninitialized(tmick)
       THEN /\ tmick' = Called([tmick EXCEPT !.last =
                                   TmickCall("get", "throw", NotInitialized, 0)])
            /\ UNCHANGED container
       ELSE Got(get(container, id, MaxStack))
    /\ UNCHANGED <<meta, calls, registryVars, disp, other, run, inflight>>

\* tmick.getContainer()
GetContainer ==
    /\ CanCall
    /\ tmick' = Called([tmick EXCEPT !.last =
                           IF uninitialized(tmick)
                           THEN TmickCall("getContainer", "throw", NotInitialized, 0)
                           ELSE TmickCall("getContainer", "return", "", TheContainer)])
    /\ UNCHANGED <<containerVars, registryVars, disp, other, run, inflight>>

\* tmick.executeCommand / executeQuery / dispatchEvents, r being the outcome
\* of dispatch() on the dispatcher in the field.  An async method that throws
\* before it reaches the dispatcher returns a rejected promise.  Otherwise it
\* returns the promise of dispatch(), and the promise it hands to its own
\* caller is pending when the call returns, whatever has become of that of
\* dispatch(): it takes that one up in microtasks of its own.  The method is
\* called again once that promise has settled.
Delegate(op, dispatcher, r) ==
    /\ CanCall
    /\ IF uninitialized(tmick)
       THEN /\ tmick' = Called([tmick EXCEPT !.last =
                                   TmickCall(op, "reject", NotInitialized, 0)])
            /\ UNCHANGED <<container, disp>>
       ELSE IF dispatcher = 0
       THEN /\ tmick' = Called([tmick EXCEPT !.last =
                                   TmickCall(op, "reject", NullDispatcher, 0)])
            /\ UNCHANGED <<container, disp>>
       ELSE /\ disp.promise # "pending" /\ tmick.promise # "pending"
            /\ Len(r.cs.heap) <= TmickHeap
            /\ container' = r.cs
            /\ disp' = r.d
            /\ tmick' = Called([tmick EXCEPT !.last = TmickCall(op, "promise", "", 0),
                                             !.promise = "pending", !.out = NoValue])
    /\ UNCHANGED <<meta, calls, registryVars, other, run, inflight>>

\* The microtasks in which the promise executeCommand, executeQuery or
\* dispatchEvents returned takes up the promise of dispatch(), which has
\* settled, and settles as that one did.
TmickPromiseFollows ==
    /\ tmick.promise = "pending" /\ disp.promise # "pending"
    /\ tmick' = [tmick EXCEPT !.promise = disp.promise, !.out = disp.out]
    /\ UNCHANGED <<containerVars, registryVars, disp, other, run, inflight>>

\* tmick.executeCommand(command)
ExecuteCommand(name, throws) ==
    Delegate("executeCommand", tmick.commandDispatcher,
             CommandDispatcher_dispatch(container, cmdHandlers, "command", name, throws, disp))

\* tmick.executeQuery(query)
ExecuteQuery(name, throws) ==
    Delegate("executeQuery", tmick.queryDispatcher,
             CommandDispatcher_dispatch(container, qryHandlers, "query", name, throws, disp))

\* tmick.dispatchEvents(events)
TmickDispatchEvents(names, throwers) ==
    Delegate("dispatchEvents", tmick.eventDispatcher,
             EventDispatcher_dispatch(
                 container, evtHandlers,
                 [disp EXCEPT !.op = "event", !.messages = names, !.pos = 0, !.gets = 0,
                              !.calls = <<>>, !.promise = "pending", !.out = NoValue,
                              !.all = NoValue, !.firm = FALSE],
                 1, throwers))

\* A registration call on the orchestrator hands its arguments to the
\* container, cs being the container that call leaves, and returns this.
TmickRegistered(op, cs) ==
    /\ CanCall
    /\ container' = cs
    /\ tmick' = Called([tmick EXCEPT !.last = TmickCall(op, "return", "", 0)])
    /\ UNCHANGED <<meta, calls, registryVars, disp, other, run, inflight>>

\* tmick.registerFactory(identifier, factory, singleton)
TmickRegisterFactory(identifier, factory, singleton) ==
    TmickRegistered("registerFactory",
                    registerFactory(container, identifier, factory, singleton))

\* tmick.registerValue(identifier, instance)
TmickRegisterValue(identifier, instance) ==
    TmickRegistered("registerValue", registerInstance(container, identifier, instance))

\* tmick.registerConstructor(identifier, constructor, singleton, dependencies)
TmickRegisterConstructor(identifier, constructor, singleton, dependencies) ==
    TmickRegistered("registerConstructor",
                    registerConstructor(container, identifier, constructor, singleton,
                                        [j \in DOMAIN dependencies |->
                                            getCanonicalIdentifier(container,
                                                                   dependencies[j])]))

\* tmick.registerByClass(constructor, singleton)
TmickRegisterByClass(constructor, singleton) ==
    TmickRegistered("registerByClass", registerByClass(container, constructor, singleton))

\* tmick.dispose()
Dispose ==
    LET r == dispose(container, registry, tmick)
    IN  /\ CanCall
        /\ container' = r.cs
        /\ registry' = r.reg
        /\ tmick' = Called(r.tm)
        /\ UNCHANGED <<meta, calls, cmdHandlers, qryHandlers, evtHandlers, lastReg,
                       regCalls, disp, other, run, inflight>>

\* new Tmick() in a process whose modules are loaded.
InitTmick ==
    /\ container = NewTmickContainer
    /\ run = NoRun
    /\ meta = MetaTable(R, FALSE)
    /\ calls = 0
    /\ registry = LoadedRegistry
    /\ cmdHandlers = <<>> /\ qryHandlers = <<>> /\ evtHandlers = <<>>
    /\ lastReg = RegCall("new", "", "", NoId, [ok |-> TRUE, err |-> ""])
    /\ regCalls = 0
    /\ DispatchIdle
    /\ TmickIdle

\* The handler decorators of class A hand it to HandlerRegistry.register for
\* the type T1 while the modules load, and a test suite empties the registry
\* with HandlerRegistry.clear(), before the first call on the orchestrator.
NextTmick ==
    \/ tmick.n = 0 /\ \E k \in HandlerTypes : Register(Cls("A"), "T1", k)
    \/ AutoScanAndRegisters
    \/ Initialize
    \/ \E id \in {Cls("A"), Cls("C"), Str("s")} : TmickGet(id)
    \/ GetContainer
    \/ \E throws \in BOOLEAN : ExecuteCommand("T1", throws)
    \/ \E throws \in BOOLEAN : ExecuteQuery("T1", throws)
    \/ \E names \in {<<"T1">>, <<"T1", "T1">>} :
          \E throwers \in ThrowersAt(evtHandlers, names, 1) :
             TmickDispatchEvents(names, throwers)
    \/ \E k \in DOMAIN disp.calls : HandlerFulfils(k)
    \/ \E k \in DOMAIN disp.calls : HandlerRejects(k)
    \/ \E throwers \in ThrowersAt(evtHandlers, disp.messages, disp.pos + 1) :
          DispatchResumes(throwers)
    \/ DispatchReturns
    \/ CallbacksFollow
    \/ TmickPromiseFollows
    \/ Dispose
    \/ tmick.n = 0 /\ ClearRegistry
    \/ TmickRegisterFactory(R, "mk", TRUE)
    \/ TmickRegisterValue(Str("s"), 1)
    \/ TmickRegisterConstructor(Str("s"), Cls("A"), TRUE, <<>>)
    \/ \E single \in BOOLEAN : TmickRegisterByClass(CommandDispatcher, single)

\* One orchestrator under every sequence of calls.
SpecTmick == InitTmick /\ [][NextTmick]_vars

(***************************************************************************)
(* Two orchestrators in one process.  Each new Tmick() has a container and *)
(* three dispatchers of its own; HandlerRegistry and the Reflect metadata  *)
(* are static, one for the process.                                        *)
(***************************************************************************)
\* new Tmick(), the second of the process
NewOther == [NoOther EXCEPT !.container = NewTmickContainer]

OtherCanCall == other.tmick.n < MaxTmickCalls

\* A scan that registers into the container of the first orchestrator.
OtherScanned_Shared(r) ==
    /\ OtherCanCall
    /\ Len(r.cs.heap) <= TmickHeap
    /\ container' = r.cs
    /\ other' = [other EXCEPT !.tmick = Called([r.tm EXCEPT !.last =
                     TmickCall("autoScanAndRegisters", "return", "", 0)])]
    /\ UNCHANGED <<meta, calls, registryVars, disp, tmick, inflight, run>>

\* other.autoScanAndRegisters(), r being its outcome
OtherScanned(r) ==
    /\ OtherCanCall
    /\ Len(r.cs.heap) <= TmickHeap
    /\ other' = [container |-> r.cs,
                 tmick |-> Called([r.tm EXCEPT !.last =
                              IF r.ok THEN TmickCall("autoScanAndRegisters", "return", "", 0)
                              ELSE TmickCall("autoScanAndRegisters", "throw", r.err, 0)]),
                 cmdHandlers |-> r.tables.cmd,
                 qryHandlers |-> r.tables.qry,
                 evtHandlers |-> r.tables.evt]
    /\ UNCHANGED <<containerVars, registryVars, disp, tmick, inflight, run>>

\* other.autoScanAndRegisters()
OtherAutoScanAndRegisters ==
    OtherScanned(autoScanAndRegisters(other.container, registry, other.tmick,
                                      Tables(other.cmdHandlers, other.qryHandlers,
                                             other.evtHandlers)))

\* other.initialize()
OtherInitialize ==
    /\ OtherCanCall
    /\ other' = [other EXCEPT !.tmick = Called(initialize(other.tmick))]
    /\ UNCHANGED <<containerVars, registryVars, disp, tmick, inflight, run>>

\* other.dispose()
OtherDispose ==
    LET r == dispose(other.container, registry, other.tmick)
    IN  /\ OtherCanCall
        /\ other' = [other EXCEPT !.container = r.cs, !.tmick = Called(r.tm)]
        /\ registry' = r.reg
        /\ UNCHANGED <<containerVars, cmdHandlers, qryHandlers, evtHandlers, lastReg,
                       regCalls, disp, tmick, inflight, run>>

\* new Tmick() twice in a process whose modules are loaded.
InitTwo ==
    /\ container = NewTmickContainer
    /\ run = NoRun
    /\ meta = MetaTable(R, FALSE)
    /\ calls = 0
    /\ registry = LoadedRegistry
    /\ cmdHandlers = <<>> /\ qryHandlers = <<>> /\ evtHandlers = <<>>
    /\ lastReg = RegCall("new", "", "", NoId, [ok |-> TRUE, err |-> ""])
    /\ regCalls = 0
    /\ DispatchIdle
    /\ tmick = NewTmick
    /\ other = NewOther

\* The handler decorator of class A hands it to HandlerRegistry.register as
\* the handler of the command T1.
NextTwo ==
    \/ Register(Cls("A"), "T1", "command")
    \/ AutoScanAndRegisters
    \/ Initialize
    \/ Dispose
    \/ OtherAutoScanAndRegisters
    \/ OtherInitialize
    \/ OtherDispose

\* Two orchestrators under every sequence of calls.
SpecTwo == InitTwo /\ [][NextTwo]_vars

(***************************************************************************)
(* The decorators (decorators/ioc-handler.ts).  The metadata of a class    *)
(* carries besides 'cqrs:injectable-service' and 'cqrs:param-dependencies' *)
(* the key 'cqrs:lifecycle': "none" while it is undefined, otherwise the   *)
(* { singleton } that @Singleton or @Transient has defined.  A decorator   *)
(* is a function applied to the class: of the class decorators written     *)
(* above one class the lowest is applied first, and the parameter          *)
(* decorators before them.                                                 *)
(***************************************************************************)
ClassMetadata(inj, id, single, deps, lifecycle) ==
    [injectable |-> inj, id |-> id, singleton |-> single, paramDeps |-> deps,
     lifecycle |-> lifecycle]
\* A class no decorator has been applied to.
Undecorated == ClassMetadata(FALSE, NoId, TRUE, <<>>, "none")

\* The argument of @Injectable: an InjectableOptions object { id } (id NoId
\* for {}, which is also the default), or a ServiceIdentifier.
AsOptions(id) == [form |-> "options", id |-> id]
AsIdentifier(id) == [form |-> "identifier", id |-> id]

\* typeof x === 'object' && x !== null && !('prototype' in x): true of an
\* options object and of a Token, false of a string and of a class.
isOptionsObject(optionsOrIdentifier) ==
    \/ optionsOrIdentifier.form = "options"
    \/ optionsOrIdentifier.id.kind = "token"

\* opts.id of what passed for an options object; a Token has no property id.
optsId(optionsOrIdentifier) ==
    IF optionsOrIdentifier.form = "options" THEN optionsOrIdentifier.id ELSE NoId

\* An @Injectable that takes every object but InjectableOptions for an
\* identifier.
Injectable_identifier_Direct(optionsOrIdentifier, constructor) ==
    IF optionsOrIdentifier.id # NoId THEN optionsOrIdentifier.id ELSE constructor

\* Injectable, lines 15-24: the identifier recorded for the class.
Injectable_identifier(optionsOrIdentifier, constructor) ==
    IF isOptionsObject(optionsOrIdentifier)
    THEN IF optsId(optionsOrIdentifier) # NoId THEN optsId(optionsOrIdentifier)
         ELSE constructor
    ELSE IF optionsOrIdentifier.id # NoId THEN optionsOrIdentifier.id ELSE constructor

\* Reflect.getMetadata('cqrs:lifecycle', constructor): undefined ("none") on a
\* class that neither @Singleton nor @Transient was applied to, and in a
\* table that records no such key.
getLifecycle(m, constructor) ==
    IF "lifecycle" \in DOMAIN m[constructor.name]
    THEN m[constructor.name].lifecycle
    ELSE "none"

\* An @Injectable that always records a singleton.
Injectable_singleton_Default(m, constructor) == TRUE

\* Injectable, lines 26-31: the lifecycle recorded for the class, read from
\* 'cqrs:lifecycle' as it is when @Injectable is applied.
Injectable_singleton(m, constructor) ==
    IF getLifecycle(m, constructor) # "none"
    THEN getLifecycle(m, constructor) = "singleton"
    ELSE TRUE

\* Injectable(optionsOrIdentifier)(constructor): the metadata store and the
\* handler registry it leaves.
Injectable(m, reg, optionsOrIdentifier, constructor) ==
    [meta |-> [m EXCEPT ![constructor.name].injectable = TRUE,
                        ![constructor.name].id =
                            Injectable_identifier(optionsOrIdentifier, constructor),
                        ![constructor.name].singleton =
                            Injectable_singleton(m, constructor)],
     reg |-> registerServiceClass(reg, constructor)]

\* Singleton()(constructor)
Singleton(m, constructor) == [m EXCEPT ![constructor.name].lifecycle = "singleton"]

\* Transient()(constructor)
Transient(m, constructor) == [m EXCEPT ![constructor.name].lifecycle = "transient"]

\* What a handler decorator leaves once HandlerRegistry.register has
\* returned r: a class without 'cqrs:injectable-service' is handed to
\* Injectable(), which marks it injectable under itself.
markHandler(m, r, target) ==
    IF ~r.ok THEN [meta |-> m, reg |-> r.st, ok |-> FALSE, err |-> r.err]
    ELSE IF m[target.name].injectable
    THEN [meta |-> m, reg |-> r.st, ok |-> TRUE, err |-> ""]
    ELSE LET marked == Injectable(m, r.st, AsOptions(NoId), target)
         IN  [meta |-> marked.meta, reg |-> marked.reg, ok |-> TRUE, err |-> ""]

\* CommandHandler(commandClass)(target), commandName being commandClass.name
CommandHandler(m, reg, commandName, target) ==
    markHandler(m, register(reg, target, commandName, "command"), target)

\* QueryHandler(queryClass)(target)
QueryHandler(m, reg, queryName, target) ==
    markHandler(m, register(reg, target, queryName, "query"), target)

\* EventHandler(eventClass)(target)
EventHandler(m, reg, eventName, target) ==
    markHandler(m, register(reg, target, eventName, "event"), target)

\* The handler decorator of the kind given.
handlerDecorator(m, reg, name, target, handlerType) ==
    CASE handlerType = "command" -> CommandHandler(m, reg, name, target)
      [] handlerType = "query" -> QueryHandler(m, reg, name, target)
      [] OTHER -> EventHandler(m, reg, name, target)

\* An @Inject that appends the identifier to the list.
Inject_Append(m, identifier, target, parameterIndex) ==
    [m EXCEPT ![target.name].paramDeps = Append(@, identifier)]

\* Inject(identifier)(target, undefined, parameterIndex); the first parameter
\* has index 0 and is entry 1 of the list, and NoId is a hole of the array.
Inject(m, identifier, target, parameterIndex) ==
    LET existingDeps == m[target.name].paramDeps
        grown == IF Len(existingDeps) <= parameterIndex
                 THEN [j \in 1..(parameterIndex + 1) |->
                          IF j <= Len(existingDeps) THEN existingDeps[j] ELSE NoId]
                 ELSE existingDeps
    IN  [m EXCEPT ![target.name].paramDeps = [grown EXCEPT ![parameterIndex + 1] = identifier]]

\* Constructor parameters a class may declare.
MaxParams == 2

\* The store once the framework's modules and class A are loaded: each
\* dispatcher is @Injectable() @Singleton() with @Inject(ISERVICECONTAINER_TOKEN)
\* on its one parameter, and A is @Injectable().
RECURSIVE loadDispatchers(_, _)
loadDispatchers(s, dispatchers) ==
    IF dispatchers = <<>> THEN s
    ELSE loadDispatchers(
             Injectable(Singleton(Inject(s.meta, ISERVICECONTAINER_TOKEN,
                                         Head(dispatchers), 0),
                                  Head(dispatchers)),
                        s.reg, AsOptions(NoId), Head(dispatchers)),
             Tail(dispatchers))
LoadedFramework ==
    loadDispatchers([meta |-> [n \in ClassNames \cup DispatcherNames |-> Undecorated],
                     reg |-> EmptyRegistry],
                    <<CommandDispatcher, QueryDispatcher, EventDispatcher>>)
LoadedModules ==
    Injectable(LoadedFramework.meta, LoadedFramework.reg, AsOptions(NoId), Cls("A"))

\* The class whose definition is being evaluated, and what its decorators
\* are given.
DecoratedClasses == {Cls("B")}
InjectableArguments ==
    {AsOptions(NoId), AsOptions(R), AsOptions(Str("s")),
     AsIdentifier(Str("s")), AsIdentifier(Str("A")), AsIdentifier(Cls("C")), AsIdentifier(R)}
InjectedIdentifiers == {Cls("A"), Str("s")}

\* Classes are defined before the orchestrator is first used.
Loading == tmick.n = 0

\* @Inject(identifier) on parameter parameterIndex of the constructor of c;
\* parameter decorators are applied before the class decorators.
ApplyInject(c, identifier, parameterIndex) ==
    /\ Loading
    /\ parameterIndex < MaxParams
    /\ ~meta[c.name].injectable /\ meta[c.name].lifecycle = "none"
    /\ meta' = Inject(meta, identifier, c, parameterIndex)
    /\ UNCHANGED <<container, calls, registryVars, appVars>>

\* @Singleton() on class c
ApplySingleton(c) ==
    /\ Loading
    /\ meta' = Singleton(meta, c)
    /\ UNCHANGED <<container, calls, registryVars, appVars>>

\* @Transient() on class c
ApplyTransient(c) ==
    /\ Loading
    /\ meta' = Transient(meta, c)
    /\ UNCHANGED <<container, calls, registryVars, appVars>>

\* What r, an application of @Injectable, leaves.
Marked(r) ==
    /\ Loading
    /\ meta' = r.meta
    /\ registry' = r.reg
    /\ UNCHANGED <<container, calls, cmdHandlers, qryHandlers, evtHandlers, lastReg,
                   regCalls, appVars>>

\* @Injectable(optionsOrIdentifier) on class c
ApplyInjectable(c, optionsOrIdentifier) ==
    Marked(Injectable(meta, registry, optionsOrIdentifier, c))

\* @CommandHandler(T) / @QueryHandler(T) / @EventHandler(T) on class c, name
\* being T.name; a decorator that throws leaves the class unmarked.
ApplyHandler(c, name, handlerType) ==
    LET r == handlerDecorator(meta, registry, name, c, handlerType)
    IN  /\ Loading
        /\ regCalls < MaxRegistryCalls
        /\ meta' = r.meta
        /\ registry' = r.reg
        /\ lastReg' = RegCall("register", handlerType, name, c, r)
        /\ regCalls' = regCalls + 1
        /\ UNCHANGED <<container, calls, cmdHandlers, qryHandlers, evtHandlers, appVars>>

\* new Tmick() in a process that has loaded the framework and class A.
InitDecorators ==
    /\ container = NewTmickContainer
    /\ run = NoRun
    /\ meta = LoadedModules.meta
    /\ calls = 0
    /\ registry = LoadedModules.reg
    /\ cmdHandlers = <<>> /\ qryHandlers = <<>> /\ evtHandlers = <<>>
    /\ lastReg = RegCall("new", "", "", NoId, [ok |-> TRUE, err |-> ""])
    /\ regCalls = 0
    /\ DispatchIdle
    /\ TmickIdle

NextDecorators ==
    \/ \E c \in DecoratedClasses, id \in InjectedIdentifiers, i \in 0..(MaxParams - 1) :
          ApplyInject(c, id, i)
    \/ \E c \in DecoratedClasses : ApplySingleton(c)
    \/ \E c \in DecoratedClasses : ApplyTransient(c)
    \/ \E c \in DecoratedClasses, arg \in InjectableArguments : ApplyInjectable(c, arg)
    \/ /\ regCalls = 0
       /\ \E c \in DecoratedClasses, k \in HandlerTypes : ApplyHandler(c, "T1", k)
    \/ AutoScanAndRegisters
    \/ Initialize
    \/ \E id \in {Cls("B"), Str("s"), R} : TmickGet(id)

\* The definition of one class under every choice of decorators, the class
\* being the handler of at most one message, and the orchestrator that scans
\* it.
SpecDecorators == InitDecorators /\ [][NextDecorators]_vars

(***************************************************************************)
(* An orchestrator set up as the tests and the demo applications set       *)
(* theirs up, new Tmick() followed by                                      *)
(* tmick.autoScanAndRegisters().initialize(), and what a second scan and   *)
(* the get() calls around it make of it.                                   *)
(***************************************************************************)
\* What a scan can find.  The modules have loaded, so that @Injectable has
\* entered the dispatcher classes, A and B in the registry, or
\* HandlerRegistry.clear() has emptied the registry after that, as the
\* beforeEach of the tests does; then a handler decorator has been applied
\* to class C for T1, which registers it as a handler and, C carrying no
\* @Injectable, marks it injectable under itself.
ScanSetUps ==
    {handlerDecorator(m, reg, "T1", Cls("C"), k) :
        m \in MetaTables,
        reg \in {LoadedRegistry, HandlerRegistry_clear(LoadedRegistry)},
        k \in HandlerTypes}

\* tmick = new Tmick(); tmick.autoScanAndRegisters().initialize(), for each
\* way B is declared and each registry; n counts the calls made from here on.
InitScan ==
    /\ \E s \in ScanSetUps : meta = s.meta /\ registry = s.reg
    /\ calls = 0
    /\ lastReg = RegCall("new", "", "", NoId, [ok |-> TRUE, err |-> ""])
    /\ regCalls = 0
    /\ DispatchIdle
    /\ other = NoOther
    /\ run = NoRun
    /\ LET s == autoScanAndRegisters(NewTmickContainer, registry, NewTmick,
                                     Tables(<<>>, <<>>, <<>>))
       IN  /\ container = s.cs
           /\ cmdHandlers = s.tables.cmd
           /\ qryHandlers = s.tables.qry
           /\ evtHandlers = s.tables.evt
           /\ tmick = initialize(s.tm)

NextScan ==
    \/ AutoScanAndRegisters
    \/ Initialize
    \/ \E id \in {Cls("A"), Cls("B"), Cls("C"), R} : TmickGet(id)
    \/ TmickRegisterByClass(CommandDispatcher, FALSE)
    \/ Dispose

\* A set-up orchestrator under every sequence of scans and get() calls.
SpecScan == InitScan /\ [][NextScan]_vars

\* A container of its own in a process whose classes are still being
\* defined: B's constructor parameters are marked while the container is
\* registered with and resolved from.
NextByClass ==
    \/ \E id \in InjectedIdentifiers, i \in 0..(MaxParams - 1) : ApplyInject(Cls("B"), id, i)
    \/ \E ctor \in {Cls("A"), Cls("B")}, single \in BOOLEAN : RegisterByClass(ctor, single)
    \/ RegisterConstructor(Str("s"), Cls("A"), TRUE, FALSE)
    \/ \E obj \in Externals : RegisterInstance(Str("s"), obj)
    \/ \E id \in {Cls("B"), Str("s")} : Get(id)

SpecByClass == InitDecorators /\ [][NextByClass]_vars

(***************************************************************************)
(* Properties of the container.  A step of Spec that leaves calls alone is *)
(* a get(); one that raises it is a registration or a clear().             *)
(***************************************************************************)
Canon(id) == getCanonicalIdentifier(container, id)
DescriptorOf(id) == container.services[Canon(id)]

\* C1: for an identifier whose descriptor is a singleton, once get() has
\* returned an instance (the cache holds it, or this very step is that get),
\* every get() that follows, with nothing but get() calls in between (no
\* registration and no clear()), returns that same instance and constructs
\* nothing: the factory or constructor behind the identifier runs for the
\* first get() only.
C1_SingletonIdentity ==
    [][\A id \in Ids :
          LET k == Canon(id)
              d == container.services[k]
              r1 == get(container, id, MaxStack)
          IN  ( /\ calls' = calls
                /\ d.type # "none" /\ d.singleton
                /\ r1.ok
                /\ container.instances[k] # 0 \/ container' = r1.cs )
              => LET r2 == get(container', id, MaxStack)
                 IN  /\ r2.ok
                     /\ r2.val = r1.val
                     /\ container'.instances[k] = r1.val
                     /\ r2.cs = container']_vars

\* C2: for an identifier whose descriptor is transient the cache holds no
\* entry, and get() returns an object constructed by that very call, leaving
\* the cache without an entry.
C2_TransientFresh ==
    \A id \in Ids :
        LET k == Canon(id)
            d == container.services[k]
            r == get(container, id, MaxStack)
        IN  (d.type # "none" /\ ~d.singleton)
            => /\ container.instances[k] = 0
               /\ r.ok => /\ r.val > Len(container.heap)
                          /\ r.cs.instances[k] = 0

\* The scan has registered class c: it is a class of the registry.
Scans(c) ==
    \E i \in DOMAIN getServiceClasses(registry) : getServiceClasses(registry)[i] = c

\* The scan has registered a descriptor under id: a class of the registry,
\* or the identifier that @Injectable declares for one.
ScanRegistered(id) ==
    \E c \in Classes :
        /\ Scans(c)
        /\ \/ id = c
           \/ meta[c.name].injectable /\ meta[c.name].id = id

\* C3: on a scanned orchestrator, get() of a class the scan has registered
\* as a singleton returns an instance that holds, for each dependency the
\* scan has registered as a singleton, the very instance get() returns for
\* that dependency; along C -> B -> A this makes the B inside C the
\* container's B and the A inside that B the container's A.
C3_ChainShared ==
    \A c \in Classes :
        LET d == DescriptorOf(c)
            r == get(container, c, MaxStack)
        IN  (Scans(c) /\ d.type = "constructor" /\ d.singleton /\ r.ok)
            => \A j \in DOMAIN d.deps :
                  LET dep == d.deps[j]
                      rd == get(r.cs, dep, MaxStack)
                  IN  ( /\ dep # NoId
                        /\ ScanRegistered(dep)
                        /\ r.cs.services[getCanonicalIdentifier(r.cs, dep)].singleton )
                      => /\ rd.ok
                         /\ r.cs.heap[r.val].args[j] = rd.val
                         /\ rd.cs.instances = r.cs.instances

\* The scan has registered C, B and A, singletons all three, and
\* tmick.get(C) has returned: C holds the B that get(B) returns and that B
\* holds the A that get(A) returns.
C3_Witness ==
    LET c == tmick.last.val
        b == get(container, Cls("B"), MaxStack)
        a == get(container, Cls("A"), MaxStack)
    IN  /\ Scans(Cls("C")) /\ Scans(Cls("B")) /\ Scans(Cls("A"))
        /\ \A k \in {Cls("C"), Cls("B"), Cls("A")} : container.services[k].singleton
        /\ tmick.last.op = "get" /\ tmick.last.via = "return"
        /\ container.heap[c].src = <<"class", "C">>
        /\ b.ok /\ a.ok
        /\ container.heap[c].args[1] = b.val
        /\ container.heap[b.val].src = <<"class", "B">>
        /\ container.heap[b.val].args = <<a.val>>
        /\ container.heap[a.val].src = <<"class", "A">>

\* An identifier get() can register on the fly: a class that carries the
\* metadata of @Injectable.
AutoRegistrable(id) == id.kind = "class" /\ meta[id.name].injectable

\* C4: get() of an identifier that has no descriptor under its canonical form
\* and that is no injectable class (a string, a Token, or a class without the
\* metadata) throws "Service '<name>' not registered." with the name of that
\* identifier, and leaves the container as it was.
C4_NotRegistered ==
    \A id \in Ids :
        LET r == get(container, id, MaxStack)
        IN  (DescriptorOf(id).type = "none" /\ ~AutoRegistrable(id))
            => /\ ~r.ok
               /\ r.err = "Service '" \o id.name \o "' not registered."
               /\ r.cs = container

\* After some calls the container holds descriptors, yet a string, a Token
\* and a class without metadata are unregistered and get() throws for each.
C4_Witness ==
    /\ \E id \in Ids : DescriptorOf(id).type # "none"
    /\ \A id \in {Str("s"), R, Cls("C")} :
          /\ DescriptorOf(id).type = "none"
          /\ get(container, id, MaxStack) =
                Throw(container, "Service '" \o id.name \o "' not registered.")

\* The container after the first j - 1 dependencies of deps were resolved in
\* order, when all of them resolve.
AfterDependencies(cs, deps, j) ==
    resolveDependencies(cs, SubSeq(deps, 1, j - 1), 1, MaxStack - 1)

\* C5: when get(id) resolves a constructor descriptor and get() of one of its
\* declared dependencies throws, get(id) throws that same error, which is
\* "Service '<dep>' not registered." when the dependency has no descriptor and
\* is no injectable class; the descriptor of id constructs nothing and nothing
\* is cached for id.
\* When get(id) succeeds, every declared dependency was injected an object,
\* never undefined.
C5_DependencyFailure ==
    \A id \in Ids :
        LET k == Canon(id)
            d == container.services[k]
            r == get(container, id, MaxStack)
        IN  (d.type = "constructor" /\ container.instances[k] = 0)
            => /\ \A j \in DOMAIN d.deps :
                     LET before == AfterDependencies(container, d.deps, j)
                         dep == d.deps[j]
                         rd == get(before.cs, dep, MaxStack - 1)
                     IN  (dep # NoId /\ before.ok /\ ~rd.ok)
                         => /\ ~r.ok
                            /\ r.err = rd.err
                            /\ ( /\ before.cs.services[getCanonicalIdentifier(before.cs, dep)].type = "none"
                                 /\ ~AutoRegistrable(dep) )
                               => r.err = "Service '" \o dep.name \o "' not registered."
                            /\ r.cs.instances[k] = 0
                            /\ \A o \in r.cs.built[d.identifier] \ container.built[d.identifier] :
                                  r.cs.heap[o].src # <<"class", d.ctor>>
               /\ r.ok => \A j \in DOMAIN d.deps :
                             d.deps[j] # NoId => r.cs.heap[r.val].args[j] # 0

\* get(C) has thrown for the missing R after it resolved B: B and A are
\* cached, C is registered and was neither built nor cached, and get(C)
\* throws the error of R.
C5_Witness ==
    /\ container.services[Cls("C")].type = "constructor"
    /\ container.services[Cls("C")].deps = <<Cls("B"), R>>
    /\ container.services[R].type = "none"
    /\ container.instances[Cls("B")] # 0
    /\ container.instances[Cls("C")] = 0
    /\ \A o \in DOMAIN container.heap : container.heap[o].src # <<"class", "C">>
    /\ get(container, Cls("C"), MaxStack) = Throw(container, "Service 'R' not registered.")

\* The state a registration call leaves: under the canonical form of id a
\* descriptor of the given type, producer and lifetime, no cached instance,
\* and a get(id) that, when it succeeds, returns an object constructed by that
\* get from the new producer.
Replaced(id, type, producer, single) ==
    LET k == getCanonicalIdentifier(container', id)
        d == container'.services[k]
        r == get(container', id, MaxStack)
    IN  /\ calls' = calls + 1
        /\ d.type = type
        /\ (IF type = "factory" THEN d.factory ELSE d.ctor) = producer
        /\ d.singleton = single
        /\ container'.instances[k] = 0
        /\ r.ok => /\ r.val > Len(container'.heap)
                   /\ r.cs.heap[r.val].src =
                         <<IF type = "factory" THEN "factory" ELSE "class", producer>>

\* C6: registerFactory or registerConstructor (registerByClass goes through
\* it) for an identifier that already has a descriptor returns normally,
\* stores the new descriptor in place of the old one and leaves no cached
\* instance, so the next get() returns an instance the new descriptor produces
\* and never the one cached before.
C6_ReRegistration ==
    [][\A id \in Ids, single \in BOOLEAN :
          (calls' = calls + 1 /\ DescriptorOf(id).type # "none")
          => /\ \A f \in FactoryNames :
                   RegisterFactory(id, f, single) => Replaced(id, "factory", f, single)
             /\ \A ctor \in Classes :
                   ( \/ id \in UserStrings /\ \E withDeps \in BOOLEAN :
                                              RegisterConstructor(id, ctor, single, withDeps)
                     \/ id = ctor /\ RegisterByClass(ctor, single) )
                   => Replaced(id, "constructor", ctor.name, single)]_vars

\* A key whose cached singleton was dropped by a re-registration now caches a
\* different object, one produced by the descriptor stored there now.
C6_Witness ==
    \E k \in Keys :
        LET d == container.services[k]
            o == container.instances[k]
        IN  /\ container.stale[k] # {}
            /\ d.type \in {"factory", "constructor"}
            /\ o # 0
            /\ o \notin container.stale[k]
            /\ \A old \in container.stale[k] : old < o
            /\ container.heap[o].src =
                  (IF d.type = "factory" THEN <<"factory", d.factory>> ELSE <<"class", d.ctor>>)

\* get() through the string s and through the identifier t reach the same
\* descriptor of container cs and have the same outcome; a singleton is the
\* same instance through either form, whichever is asked first.
Collide(cs, s, t) ==
    LET k == getCanonicalIdentifier(cs, s)
        r1 == get(cs, s, MaxStack)
        r2 == get(cs, t, MaxStack)
    IN  /\ k = getCanonicalIdentifier(cs, t)
        /\ cs.services[k].type # "none"
        /\ r1.ok = r2.ok
        /\ (r1.ok /\ cs.services[k].singleton)
           => /\ get(r1.cs, t, MaxStack).val = r1.val
              /\ get(r2.cs, s, MaxStack).val = r2.val
              /\ r1.cs.instances[k] = r1.val
        /\ r1.ok => r1.cs.heap[r1.val].src = r2.cs.heap[r2.val].src

\* C7: a string name first seen in a registerConstructor call stands for that
\* constructor, a name first seen as the name of a registered Token or
\* constructor stands for that Token or constructor, and from then on get(name)
\* and get() of what the name stands for use one descriptor and, for a
\* singleton, return one instance.
C7_Canonical ==
    /\ [](\A n \in Names :
             container.strmap[n] # NoId => Collide(container, Str(n), container.strmap[n]))
    /\ [][\A id \in Ids :
             (calls' = calls + 1 /\ container.strmap[id.name] = NoId)
             => /\ \A ctor \in Classes :
                      \/ container'.strmap[id.name] = ctor
                      \/ ~(id.kind = "string"
                            /\ \E single \in BOOLEAN, withDeps \in BOOLEAN :
                                  RegisterConstructor(id, ctor, single, withDeps))
                /\ \/ container'.strmap[id.name] = id
                   \/ ~( /\ id.kind # "string"
                         /\ \/ \E single \in BOOLEAN, f \in FactoryNames :
                                  RegisterFactory(id, f, single)
                            \/ \E single \in BOOLEAN, withDeps \in BOOLEAN, ctor \in Classes :
                                  RegisterConstructor(id, ctor, single, withDeps)
                            \/ \E single \in BOOLEAN :
                                  id \in Classes /\ RegisterByClass(id, single)
                            \/ \E obj \in Externals : RegisterInstance(id, obj) )]_vars

\* The string "s" was registered together with a constructor and resolved:
\* the name stands for the constructor and the instance is cached under it,
\* get("s") and get(the constructor) return it.
C7_Witness ==
    \E ctor \in Classes :
        /\ container.strmap["s"] = ctor
        /\ container.services[ctor].type = "constructor"
        /\ container.instances[ctor] # 0
        /\ get(container, Str("s"), MaxStack).val = container.instances[ctor]
        /\ get(container, ctor, MaxStack).val = container.instances[ctor]

\* C8: has(id) is true exactly when a descriptor is stored under the
\* canonical form of id or the name of id is a key of the name table; it is
\* false for an identifier with neither.
C8_Has ==
    \A id \in Ids :
        LET canonical == IF id.kind = "string" /\ container.strmap[id.name] # NoId
                         THEN container.strmap[id.name] ELSE id
            stored == {k \in Keys : container.services[k].type # "none"}
            named == {n \in Names : container.strmap[n] # NoId}
        IN  has(container, id) <=> (canonical \in stored \/ id.name \in named)

\* has() is true of a class for its name alone (the string "A" was registered,
\* the class A has no descriptor), true of an identifier with a descriptor and
\* false of one with neither.
C8_Witness ==
    /\ container.strmap["A"] = AutoTok("A")
    /\ container.services[Cls("A")].type = "none"
    /\ has(container, Cls("A"))
    /\ has(container, Str("A"))
    /\ ~has(container, R)
    /\ \E id \in Ids : DescriptorOf(id).type # "none" /\ container.instances[Canon(id)] # 0

(***************************************************************************)
(* Properties of the handler registry and of the dispatchers' tables.      *)
(***************************************************************************)
\* The handlers a table binds to a name, in the table's order.
Bindings(m, name) == [i \in {j \in DOMAIN m : m[j][1] = name} |-> m[i][2]]
Bound(m, name) == DOMAIN Bindings(m, name) # {}
AtMostOnePerName(m) == \A i, j \in DOMAIN m : m[i][1] = m[j][1] => i = j

\* What a registration of handler h for name leaves in a table that holds one
\* handler per name: the first call binds h and returns; a call for a name
\* already bound throws the message and changes nothing.
OneHandlerStep(before, after, unchanged, name, h, message) ==
    IF Bound(before, name)
    THEN /\ ~lastReg'.ok
         /\ lastReg'.err = message
         /\ unchanged
    ELSE /\ lastReg'.ok
         /\ \E i \in DOMAIN after : after[i] = <<name, h>>
         /\ \A i \in DOMAIN before : after[i] = before[i]
         /\ Len(after) = Len(before) + 1

\* C9: the registry and the command and query dispatchers hold at most one
\* handler per command or query name.  The first registration for a name
\* succeeds; a later one, with whatever handler, throws
\* "Command handler for '<name>' already registered." (or "Query handler ...")
\* and leaves the first binding and the registry's service classes unchanged.
C9_OneHandlerPerName ==
    [][/\ AtMostOnePerName(registry'.commandHandlersMap)
       /\ AtMostOnePerName(registry'.queryHandlersMap)
       /\ AtMostOnePerName(cmdHandlers') /\ AtMostOnePerName(qryHandlers')
       /\ \A t \in TargetTypes, h \in HandlerClasses :
             /\ Register(h, t, "command")
                => OneHandlerStep(registry.commandHandlersMap, registry'.commandHandlersMap,
                                  registry' = registry, t, h,
                                  "Command handler for '" \o t \o "' already registered.")
             /\ Register(h, t, "query")
                => OneHandlerStep(registry.queryHandlersMap, registry'.queryHandlersMap,
                                  registry' = registry, t, h,
                                  "Query handler for '" \o t \o "' already registered.")
             /\ CommandRegisterHandler(t, h)
                => OneHandlerStep(cmdHandlers, cmdHandlers', cmdHandlers' = cmdHandlers, t, h,
                                  "Command handler for '" \o t \o "' already registered.")
             /\ QueryRegisterHandler(t, h)
                => OneHandlerStep(qryHandlers, qryHandlers', qryHandlers' = qryHandlers, t, h,
                                  "Query handler for '" \o t \o "' already registered.")]_vars

\* The registry has just refused a second command handler, another class than
\* the one bound, which stays bound and is the only service class.
C9_Witness ==
    /\ lastReg.op = "register" /\ lastReg.kind = "command"
    /\ ~lastReg.ok
    /\ lastReg.err = "Command handler for 'T1' already registered."
    /\ registry.commandHandlersMap = <<<<"T1", Cls("H1")>>>>
    /\ lastReg.handler = Cls("H2")
    /\ registry.serviceClasses = <<Cls("H1")>>

\* The handlers of an event type, in order; none when the type has no entry.
EventHandlersOf(m, name) == IF Bound(m, name) THEN m[CHOOSE i \in DOMAIN m : m[i][1] = name][2]
                            ELSE <<>>

\* C10: registering an event handler never fails and appends the handler at
\* the end of the list of its event type, whether or not the list holds it
\* already; the lists of the other event types and the command and query
\* tables stay as they were.  The registry and the event dispatcher agree.
C10_EventHandlersAppend ==
    [][\A t \in TargetTypes, h \in HandlerClasses :
          /\ Register(h, t, "event")
             => /\ lastReg'.ok
                /\ EventHandlersOf(registry'.eventHandlersMap, t)
                      = Append(EventHandlersOf(registry.eventHandlersMap, t), h)
                /\ \A u \in TargetTypes \ {t} :
                      EventHandlersOf(registry'.eventHandlersMap, u)
                         = EventHandlersOf(registry.eventHandlersMap, u)
                /\ registry'.commandHandlersMap = registry.commandHandlersMap
                /\ registry'.queryHandlersMap = registry.queryHandlersMap
          /\ EventRegisterHandler(t, h)
             => /\ lastReg'.ok
                /\ EventHandlersOf(evtHandlers', t) = Append(EventHandlersOf(evtHandlers, t), h)
                /\ \A u \in TargetTypes \ {t} :
                      EventHandlersOf(evtHandlers', u) = EventHandlersOf(evtHandlers, u)]_vars

\* One event type has three handlers in the order of their registration, the
\* same class first and last.
C10_Witness ==
    /\ EventHandlersOf(registry.eventHandlersMap, "T1") = <<Cls("H1"), Cls("H2"), Cls("H1")>>
    /\ lastReg.op = "register" /\ lastReg.kind = "event" /\ lastReg.ok

\* C11: HandlerRegistry.clear() leaves nothing behind.  Right after it the
\* command, query and event maps and the list of service classes are empty,
\* getRegistrations() and getServiceClasses() return nothing, and every
\* handler can be registered for every target type without a conflict error.
C11_ClearLeavesNothing ==
    lastReg.op = "clear"
    => /\ registry.commandHandlersMap = <<>>
       /\ registry.queryHandlersMap = <<>>
       /\ registry.eventHandlersMap = <<>>
       /\ registry.serviceClasses = <<>>
       /\ getRegistrations(registry) = <<>>
       /\ getServiceClasses(registry) = <<>>
       /\ \A h \in HandlerClasses, t \in TargetTypes, k \in HandlerTypes :
             LET r == register(registry, h, t, k)
             IN  /\ r.ok
                 /\ getRegistrations(r.st) = <<Registration(h, t, k)>>
                 /\ getServiceClasses(r.st) = <<h>>

\* A clear has just dropped a registry that held two registrations and their
\* two classes.
C11_Witness ==
    /\ lastReg.op = "clear"
    /\ lastReg.dropped = 4
    /\ registry = EmptyRegistry

(***************************************************************************)
(* Claims on the dispatchers, under SpecDispatch.                          *)
(***************************************************************************)
\* The handler a command or query table binds to a name.
BoundTo(m, name) == Bindings(m, name)[CHOOSE i \in DOMAIN Bindings(m, name) : TRUE]

\* What dispatch() of a message without handler leaves: a rejected promise
\* with the message naming the type, no get() on the container, which stays
\* as it was, and no call of handle().
RejectedUnhandled(message) ==
    /\ disp'.promise = "rejected"
    /\ disp'.out = [kind |-> "error", by |-> 0, msg |-> message]
    /\ disp'.gets = 0
    /\ disp'.calls = <<>>
    /\ container' = container

\* C12: dispatch() of a command or query whose type name has no registered
\* handler rejects with "No handler registered for command '<Name>'." (or
\* "... for query '<Name>'."), without resolving anything from the container
\* and without invoking any handler.
C12_NoHandlerRejects ==
    [][regCalls' = regCalls + 1
       => \A t \in TargetTypes, throws \in BOOLEAN :
             /\ (DispatchCommand(t, throws) /\ ~Bound(cmdHandlers, t))
                => /\ RejectedUnhandled("No handler registered for command '" \o t \o "'.")
                   /\ disp'.op = "command" /\ disp'.messages = <<t>>
             /\ (DispatchQuery(t, throws) /\ ~Bound(qryHandlers, t))
                => /\ RejectedUnhandled("No handler registered for query '" \o t \o "'.")
                   /\ disp'.op = "query" /\ disp'.messages = <<t>>]_vars

\* A command of type T2 was dispatched to a dispatcher that has a handler
\* for T1 only, and the dispatch is rejected with the message naming T2.
C12_Witness ==
    /\ disp.op = "command" /\ disp.messages = <<"T2">>
    /\ Bound(cmdHandlers, "T1") /\ ~Bound(cmdHandlers, "T2")
    /\ disp.promise = "rejected"
    /\ disp.out.msg = "No handler registered for command 'T2'."
    /\ disp.gets = 0 /\ disp.calls = <<>>

\* The promise of a command or query dispatch and its one handle() call: no
\* call when get() threw, whose Error is then what the dispatch is rejected
\* with; otherwise one call on the object get() returned, the dispatch
\* pending while the call runs and settled with nothing yet, fulfilled only
\* once the call is and then with its result, and rejected only once the
\* call has thrown or is rejected and then with its very Error.
OneHandleCall ==
    disp.op \in {"command", "query"}
    => /\ Len(disp.calls) <= 1
       /\ disp.calls = <<>> => disp.promise = "rejected" /\ disp.out.by = 0
       /\ disp.calls # <<>>
          => LET c == disp.calls[1]
             IN  /\ disp.gets = 1
                 /\ c.handler \in DOMAIN container.heap
                 /\ c.state = "running" => disp.promise = "pending"
                 /\ disp.promise = "pending"
                    => disp.out = [kind |-> "none", by |-> 0, msg |-> ""]
                 /\ disp.promise = "fulfilled"
                    => /\ c.state = "fulfilled"
                       /\ disp.out = [kind |-> "result", by |-> 1, msg |-> ""]
                 /\ disp.promise = "rejected"
                    => /\ c.state = "rejected"
                       /\ disp.out = [kind |-> "error", by |-> 1, msg |-> ""]

\* dispatch() of a message bound to identifier id: get(id) is called now, on
\* the container as it is now, and handle() is called on what it returns.
ResolvedAtDispatch(id, throws) ==
    LET g == get(container, id, MaxStack)
    IN  /\ disp'.gets = 1
        /\ container' = g.cs
        /\ g.ok => /\ Len(disp'.calls) = 1
                    /\ disp'.calls[1].identifier = id
                    /\ disp'.calls[1].handler = g.val
                    /\ disp'.calls[1].state = IF throws THEN "rejected" ELSE "running"
        /\ ~g.ok => /\ disp'.calls = <<>>
                     /\ disp'.out = [kind |-> "error", by |-> 0, msg |-> g.err]

\* C13: dispatch() of a command or query with a registered handler resolves
\* the handler from the container at dispatch time (registerHandler resolves
\* nothing), calls its handle() exactly once, and settles as that call does:
\* with its result, or with its exception unchanged.  The call is not made
\* again and no failure is swallowed: an Error of get() rejects the dispatch.
\* Once the call has settled, the one thing a step does to the dispatch is
\* to settle its promise as the call has settled.
C13_DispatchSettlesAsHandler ==
    /\ []OneHandleCall
    /\ [][/\ regCalls' = regCalls + 1
             => \A t \in TargetTypes :
                   /\ \A throws \in BOOLEAN :
                         /\ (DispatchCommand(t, throws) /\ Bound(cmdHandlers, t))
                            => ResolvedAtDispatch(BoundTo(cmdHandlers, t), throws)
                         /\ (DispatchQuery(t, throws) /\ Bound(qryHandlers, t))
                            => ResolvedAtDispatch(BoundTo(qryHandlers, t), throws)
                   /\ \A h \in DispatchHandlers :
                         (CommandRegisterHandler(t, h) \/ QueryRegisterHandler(t, h))
                            => container' = container
          /\ (regCalls' = regCalls /\ disp.op \in {"command", "query"})
             => /\ container' = container
                /\ Len(disp'.calls) = Len(disp.calls)
                /\ \A k \in DOMAIN disp.calls :
                      /\ disp'.calls[k].handler = disp.calls[k].handler
                      /\ disp.calls[k].state # "running"
                         => \/ disp' = disp
                            \/ /\ disp.promise = "pending"
                               /\ disp' = [disp EXCEPT !.promise = disp.calls[k].state,
                                                       !.out = disp.calls[k].out]]_vars

\* A query was dispatched to a handler of class A, built by the container
\* for this dispatch, whose handle() ran and then failed: the dispatch is
\* rejected with the Error of that one call.
C13_Witness ==
    /\ disp.op = "query" /\ disp.messages = <<"T1">>
    /\ Bound(qryHandlers, "T1")
    /\ BoundTo(qryHandlers, "T1") = Cls("A")
    /\ disp.gets = 1 /\ Len(disp.calls) = 1
    /\ container.heap[disp.calls[1].handler].src = <<"class", "A">>
    /\ disp.calls[1].state = "rejected"
    /\ disp.promise = "rejected"
    /\ disp.out = [kind |-> "error", by |-> 1, msg |-> ""]

\* The callbacks the step has started are those of event i alone: one for
\* each handler of its type, in the order of the list, and handle() is
\* called on each handler the container resolves.
StartsHandlersOf(i) ==
    LET identifiers == EventHandlersOf(evtHandlers, disp'.messages[i])
        before == IF disp'.messages = disp.messages /\ regCalls' = regCalls
                  THEN Len(disp.calls) ELSE 0
    IN  /\ Len(disp'.calls) = before + Len(identifiers)
        /\ \A j \in DOMAIN identifiers :
              /\ disp'.calls[before + j].event = i
              /\ disp'.calls[before + j].identifier = identifiers[j]
              /\ (disp'.calls[before + j].handler \in DOMAIN container'.heap)
                    <=> AutoRegistrable(identifiers[j])
              /\ disp'.calls[before + j].handler = 0 => disp'.calls[before + j].out.by = 0

\* C14: dispatching one event invokes every handler registered for its type
\* exactly once, two distinct handlers of one type included: the call of
\* dispatch() starts one call per handler of the first event, no later step
\* starts another call for an event in hand or changes the handler of a
\* call, and the dispatch is fulfilled only when every call has completed.
C14_AllHandlersOnce ==
    /\ [](disp.op = "event" /\ disp.promise = "fulfilled"
            => \A k \in DOMAIN disp.calls : disp.calls[k].state = "fulfilled")
    /\ [][/\ regCalls' = regCalls + 1
             => \A names \in EventLists \ {<<>>} :
                   names = disp'.messages
                      => \A throwers \in ThrowersAt(evtHandlers, names, 1) :
                            DispatchEvents(names, throwers)
                               => /\ disp'.pos = 1
                                  /\ StartsHandlersOf(1)
          /\ (regCalls' = regCalls /\ disp.op = "event")
             => /\ Len(disp'.calls) >= Len(disp.calls)
                /\ \A k \in DOMAIN disp.calls :
                      /\ disp'.calls[k].event = disp.calls[k].event
                      /\ disp'.calls[k].identifier = disp.calls[k].identifier
                      /\ disp'.calls[k].handler = disp.calls[k].handler
                /\ \A k \in DOMAIN disp'.calls \ DOMAIN disp.calls :
                      disp'.calls[k].event > disp.pos]_vars

\* One event of a type with the two handlers A and B was dispatched; each was
\* called once, on an object of its own, both calls have completed, and the
\* dispatch is fulfilled.
C14_Witness ==
    /\ disp.op = "event" /\ disp.messages = <<"T1">>
    /\ EventHandlersOf(evtHandlers, "T1") = <<Cls("A"), Cls("B")>>
    /\ Len(disp.calls) = 2
    /\ disp.calls[1].identifier = Cls("A") /\ disp.calls[2].identifier = Cls("B")
    /\ disp.calls[1].handler # disp.calls[2].handler
    /\ disp.calls[1].state = "fulfilled" /\ disp.calls[2].state = "fulfilled"
    /\ disp.promise = "fulfilled"

\* Every callback of the event in hand is fulfilled before the step.
EventCompleted ==
    \A k \in DOMAIN disp.calls :
        disp.calls[k].event = disp.pos => disp.calls[k].state = "fulfilled"

\* The step takes the loop of the dispatch further: to another event, or to
\* the end of the dispatch.
LoopGoesOn ==
    \/ disp'.pos # disp.pos
    \/ disp'.promise # disp.promise
    \/ Len(disp'.calls) # Len(disp.calls)

\* C15: the events of a list are processed in the order of the list, and
\* every handler call of an event has completed before a handler of a later
\* event is called, in whatever order the calls complete.  The calls appear
\* in the order of their events, on handlers of their event's type; a call
\* of a later event exists only once all calls of the earlier events are
\* fulfilled; and a step in which the dispatch is fulfilled or a further
\* handler is called comes after every call of the event in hand has
\* completed, takes the event next in the list and starts the handlers of
\* that event alone, or fulfils the dispatch at the end of the list.
C15_EventsInOrder ==
    /\ [](disp.op = "event"
            => \A k, l \in DOMAIN disp.calls :
                  /\ disp.calls[k].event \in 1..Len(disp.messages)
                  /\ disp.calls[k].event <= disp.pos
                  /\ \E j \in DOMAIN EventHandlersOf(evtHandlers,
                                                      disp.messages[disp.calls[k].event]) :
                        EventHandlersOf(evtHandlers, disp.messages[disp.calls[k].event])[j]
                           = disp.calls[k].identifier
                  /\ k < l => disp.calls[k].event <= disp.calls[l].event
                  /\ disp.calls[k].event < disp.calls[l].event
                        => disp.calls[k].state = "fulfilled")
    /\ [][(regCalls' = regCalls /\ disp.op = "event" /\ disp.promise = "pending"
           /\ (disp'.promise = "fulfilled" \/ Len(disp'.calls) # Len(disp.calls)
               \/ disp'.pos # disp.pos))
             => /\ EventCompleted
                /\ disp'.pos = disp.pos + 1
                /\ disp.pos < Len(disp.messages)
                      => /\ StartsHandlersOf(disp.pos + 1)
                         /\ disp'.promise = "pending"
                /\ disp.pos = Len(disp.messages)
                      => /\ disp'.promise = "fulfilled"
                         /\ Len(disp'.calls) = Len(disp.calls)]_vars

\* Two events of a type with the handlers A and B were dispatched: both calls
\* of the first event are fulfilled, and the calls of the second have been
\* started and run.
C15_Witness ==
    /\ disp.op = "event" /\ disp.messages = <<"T1", "T1">>
    /\ EventHandlersOf(evtHandlers, "T1") = <<Cls("A"), Cls("B")>>
    /\ Len(disp.calls) = 4
    /\ disp.calls[1].event = 1 /\ disp.calls[1].state = "fulfilled"
    /\ disp.calls[2].event = 1 /\ disp.calls[2].state = "fulfilled"
    /\ disp.calls[3].event = 2 /\ disp.calls[3].state = "running"
    /\ disp.calls[4].event = 2 /\ disp.calls[4].state = "running"
    /\ disp.promise = "pending"

\* The round of the loop on event i found no handler: it calls nothing,
\* leaves the container alone, and the dispatch stays pending with nothing to
\* wait for.
Skips(i) ==
    /\ disp'.pos = i
    /\ disp'.promise = "pending"
    /\ disp'.all = [kind |-> "none", by |-> 0, msg |-> ""]
    /\ Len(disp'.calls) =
          IF disp'.messages = disp.messages /\ regCalls' = regCalls
          THEN Len(disp.calls) ELSE 0
    /\ \A k \in DOMAIN disp'.calls : disp'.calls[k].event < i
    /\ container' = container

\* C16: an event whose type has no registered handler is skipped silently.
\* It is no error: a dispatch of events is rejected only with what one of its
\* handler callbacks was rejected with.  The round of the loop on such an
\* event calls nothing and leaves the container untouched, and from it the
\* loop goes on to the event next in the list and calls its handlers, or
\* fulfils the dispatch at the end of the list.
C16_UnhandledEventSkipped ==
    /\ [](disp.op = "event" /\ disp.promise = "rejected"
            => \E k \in DOMAIN disp.calls :
                  disp.calls[k].state = "rejected" /\ disp.out = disp.calls[k].out)
    /\ [][/\ regCalls' = regCalls + 1
             => \A names \in EventLists \ {<<>>} :
                   (names = disp'.messages /\ ~Bound(evtHandlers, names[1]))
                      => (DispatchEvents(names, {}) => Skips(1))
          /\ (/\ regCalls' = regCalls /\ disp.op = "event" /\ disp.promise = "pending"
              /\ disp'.pos = disp.pos + 1 /\ disp.pos < Len(disp.messages)
              /\ ~Bound(evtHandlers, disp.messages[disp.pos + 1]))
             => Skips(disp.pos + 1)
          /\ (/\ regCalls' = regCalls /\ disp.op = "event" /\ disp.promise = "pending"
              /\ \A k \in DOMAIN disp.calls : disp.calls[k].event < disp.pos
              /\ LoopGoesOn)
             => /\ disp'.pos = disp.pos + 1
                /\ disp.pos < Len(disp.messages) => StartsHandlersOf(disp.pos + 1)
                /\ disp.pos = Len(disp.messages) => disp'.promise = "fulfilled"]_vars

\* A list of an event nobody handles and an event with a handler was
\* dispatched: the handler of the second was called, and the dispatch is
\* fulfilled.
C16_Witness ==
    /\ disp.op = "event" /\ disp.messages = <<"T1", "T2">>
    /\ ~Bound(evtHandlers, "T1") /\ Bound(evtHandlers, "T2")
    /\ disp.calls # <<>>
    /\ \A k \in DOMAIN disp.calls :
          disp.calls[k].event = 2 /\ disp.calls[k].state = "fulfilled"
    /\ disp.promise = "fulfilled"

\* C17 as stated: whenever a handler call of an event has failed, no handler
\* of a later event has been called, and the dispatch, once it has settled,
\* is rejected with the failure of that call.
C17_EveryFailureRejects ==
    disp.op = "event"
    => \A k \in DOMAIN disp.calls :
          disp.calls[k].state = "rejected"
             => /\ disp.promise # "pending"
                   => /\ disp.promise = "rejected"
                      /\ disp.out = disp.calls[k].out
                /\ \A l \in DOMAIN disp.calls : disp.calls[l].event <= disp.calls[k].event

\* The handler calls of the event in hand that have failed.
C17_Failed ==
    {k \in DOMAIN disp.calls :
        disp.calls[k].event = disp.pos /\ disp.calls[k].state = "rejected"}

\* C17, amended: when a handler call of event i has failed, no handler of an
\* event after i is ever called, and the dispatch comes to be rejected and
\* is never fulfilled: when its loop is taken up again it is rejected with
\* the failure of one call of event i that had failed by then, the one whose
\* rejection Promise.all has seen first.  The failures of the other calls of
\* the event are dropped, and a rejected dispatch keeps its Error whatever
\* fails later.
C17_OneFailureRejects ==
    /\ [](disp.op = "event"
            => \A k \in DOMAIN disp.calls :
                  disp.calls[k].state = "rejected"
                     => /\ disp.calls[k].event = disp.pos
                        /\ \A l \in DOMAIN disp.calls :
                              disp.calls[l].event <= disp.calls[k].event
                        /\ disp.promise \in {"pending", "rejected"}
                        /\ disp.promise = "rejected"
                              => \E f \in C17_Failed : disp.out = disp.calls[f].out)
    /\ [][(disp.op = "event" /\ regCalls' = regCalls /\ C17_Failed # {})
             => /\ disp'.pos = disp.pos
                /\ Len(disp'.calls) = Len(disp.calls)
                /\ container' = container
                /\ disp'.promise \in {"pending", "rejected"}
                /\ (disp.promise = "pending" /\ disp'.promise = "rejected")
                      => \E f \in C17_Failed : disp'.out = disp.calls[f].out
                /\ disp.promise = "rejected"
                      => disp'.promise = "rejected" /\ disp'.out = disp.out]_vars
    /\ (disp.op = "event" /\ C17_Failed # {}) ~> (disp.promise = "rejected")

\* Two events of a type with three handlers were dispatched.  The call of
\* the second handler for the first event failed, then those of the first
\* and of the third: the dispatch is rejected with the Error of the second,
\* the two other Errors are dropped, and no call was made for the second
\* event.
C17_Witness ==
    /\ disp.op = "event" /\ disp.messages = <<"T1", "T1">>
    /\ Len(EventHandlersOf(evtHandlers, "T1")) = 3
    /\ Len(disp.calls) = 3
    /\ \A k \in 1..3 : /\ disp.calls[k].event = 1
                        /\ disp.calls[k].state = "rejected"
                        /\ disp.calls[k].out = [kind |-> "error", by |-> k, msg |-> ""]
    /\ disp.promise = "rejected"
    /\ disp.out = [kind |-> "error", by |-> 2, msg |-> ""]

(***************************************************************************)
(* Claims on the orchestrator, under SpecTmick.                            *)
(***************************************************************************)
\* The step is a call on the orchestrator of one of the methods named.
TmickCalls(ops) == tmick'.n = tmick.n + 1 /\ tmick'.last.op \in ops

\* C18: get, getContainer, executeCommand, executeQuery and dispatchEvents
\* called while the initialized flag is false, before initialize() or after
\* dispose(), fail with "Tmick Framework not initialized. Call initialize()
\* first.": get and getContainer throw it, the three others return a promise
\* rejected with it.  The call reaches neither the container nor a
\* dispatcher: the container, the dispatchers' tables and the dispatch in
\* flight stay as they were, and so does the flag.
C18_NotInitialized ==
    [][(/\ TmickCalls({"get", "getContainer", "executeCommand", "executeQuery",
                       "dispatchEvents"})
        /\ ~tmick.initialized)
         => /\ tmick'.last.err = "Tmick Framework not initialized. Call initialize() first."
            /\ tmick'.last.via = IF tmick'.last.op \in {"get", "getContainer"} THEN "throw"
                                 ELSE "reject"
            /\ tmick'.last.val = 0
            /\ ~tmick'.initialized
            /\ container' = container
            /\ disp' = disp
            /\ UNCHANGED <<registry, cmdHandlers, qryHandlers, evtHandlers>>]_vars

\* The orchestrator was scanned, so that its command dispatcher is set, and
\* then disposed, which emptied the container; executeCommand is rejected.
C18_Witness ==
    /\ tmick.last.op = "executeCommand"
    /\ tmick.last.via = "reject"
    /\ tmick.last.err = "Tmick Framework not initialized. Call initialize() first."
    /\ tmick.commandDispatcher # 0
    /\ \A k \in Keys : container.services[k].type = "none"
    /\ ~tmick.initialized

\* C19: the first initialize() sets the initialized flag and returns; the
\* flag stays set until dispose(), and every initialize() that finds it set
\* throws "Tmick Framework already initialized." and changes nothing: the
\* flag stays set, the dispatcher fields, the container, the registry and
\* the dispatchers' tables are as before.
C19_InitializeOnce ==
    [][/\ TmickCalls({"initialize"})
         => IF tmick.initialized
            THEN /\ tmick'.last.via = "throw"
                 /\ tmick'.last.err = "Tmick Framework already initialized."
                 /\ tmick'.initialized
                 /\ tmick' = [tmick EXCEPT !.last = tmick'.last, !.n = @ + 1]
                 /\ container' = container
                 /\ disp' = disp
                 /\ UNCHANGED <<registry, cmdHandlers, qryHandlers, evtHandlers>>
            ELSE /\ tmick'.last.via = "return"
                 /\ tmick'.initialized
       /\ (tmick.initialized /\ ~tmick'.initialized) => TmickCalls({"dispose"})]_vars

\* A scanned and initialized orchestrator has just refused a second
\* initialize().
C19_Witness ==
    /\ tmick.last.op = "initialize"
    /\ tmick.last.via = "throw"
    /\ tmick.last.err = "Tmick Framework already initialized."
    /\ tmick.initialized
    /\ tmick.n = 3
    /\ tmick.commandDispatcher # 0

\* What getDebugInfo() shows of a disposed orchestrator.
ShowsNothing(info) ==
    /\ DOMAIN info.registeredServices = {}
    /\ info.handlerRegistrations = <<>>
    /\ info.serviceClassesRegisteredForScan = <<>>
    /\ info.initialized = FALSE
    /\ DOMAIN info.containerInfo.registeredServiceIdentifiers = {}
    /\ info.containerInfo.instanceCacheSize = 0

\* C20: dispose(), from whatever state, empties the container (descriptors,
\* cached instances, names) and the handler registry and sets the flag to
\* false, so that getDebugInfo() right after it shows no registered service,
\* no handler registration, no scanned class and initialized = false; and a
\* dispose() of the state a dispose() leaves changes nothing.
C20_DisposeResets ==
    /\ [](LET once == dispose(container, registry, tmick)
              twice == dispose(once.cs, once.reg, once.tm)
          IN  /\ twice = once
              /\ ShowsNothing(getDebugInfo(once.cs, once.reg, once.tm)))
    /\ [][TmickCalls({"dispose"})
             => /\ ShowsNothing(getDebugInfo(container', registry', tmick'))
                /\ \A k \in Keys : /\ container'.services[k].type = "none"
                                    /\ container'.instances[k] = 0
                /\ \A n \in Names : container'.strmap[n] = NoId
                /\ registry'.commandHandlersMap = <<>> /\ registry'.queryHandlersMap = <<>>
                /\ registry'.eventHandlersMap = <<>> /\ registry'.serviceClasses = <<>>
                /\ ~tmick'.initialized
                /\ tmick'.last.via = "return"
                /\ tmick.last.op = "dispose"
                      => /\ container' = container
                         /\ tmick' = [tmick EXCEPT !.n = @ + 1]
                         /\ registry.serviceClasses = <<>> => registry' = registry]_vars

\* A scanned and initialized orchestrator, its three dispatchers set, has
\* just been disposed: nothing is left in the container and the registry,
\* and the flag is false.
C20_Witness ==
    /\ tmick.last.op = "dispose"
    /\ tmick.n = 3
    /\ tmick.commandDispatcher # 0 /\ tmick.queryDispatcher # 0
    /\ tmick.eventDispatcher # 0
    /\ ~tmick.initialized
    /\ registry = EmptyRegistry
    /\ ShowsNothing(getDebugInfo(container, registry, tmick))

(***************************************************************************)
(* Claims on the decorators, under SpecDecorators.                         *)
(***************************************************************************)
\* C26: @Inject at parameter index i sets entry i of the dependency list of
\* the class to the identifier given and grows the list to reach it when it
\* is shorter; whatever was at the index is replaced, the entries at other
\* indices stay, and an index no @Inject has marked is a gap.  Nothing else
\* of the metadata of the class, and nothing of another class, changes.
C26_InjectSetsEntry ==
    [][(meta' # meta /\ registry' = registry)
       => \A c \in DecoratedClasses, id \in InjectedIdentifiers, i \in 0..(MaxParams - 1) :
             ApplyInject(c, id, i)
                => LET old == meta[c.name].paramDeps
                       new == meta'[c.name].paramDeps
                   IN  /\ Len(new) = (IF Len(old) > i + 1 THEN Len(old) ELSE i + 1)
                       /\ new[i + 1] = id
                       /\ \A j \in DOMAIN new :
                             j # i + 1 => new[j] = (IF j <= Len(old) THEN old[j] ELSE NoId)
                       /\ meta' = [meta EXCEPT ![c.name].paramDeps = new]]_vars

\* The second parameter of B was marked with 's' and the first never was:
\* the list has a gap at index 0 and 's' at index 1.
C26_Witness ==
    /\ meta["B"].paramDeps = <<NoId, Str("s")>>
    /\ ~meta["B"].injectable


\* C25: every @Injectable(x) step records x as the identifier override of the
\* class, whichever form x has (a string, a class, a Token, or an options
\* object {id: x}), and records the class itself when no identifier is given.
C25_RecordsOverride ==
    [][(meta' # meta \/ registry' # registry)
       => \A c \in DecoratedClasses, arg \in InjectableArguments :
             ApplyInjectable(c, arg)
                => /\ meta'[c.name].injectable
                   /\ meta'[c.name].id = (IF arg.id # NoId THEN arg.id ELSE c)]_vars


\* C24: once autoScanAndRegisters has returned, a class marked @Injectable
\* and @Transient is registered under itself as transient, in whichever order
\* the two markers were applied, and a class marked @Injectable with no
\* lifecycle marker is registered as a singleton.
C24_TransientInAnyOrder ==
    \A c \in DecoratedClasses :
       (/\ tmick.last.op = "autoScanAndRegisters"
        /\ tmick.last.via = "return"
        /\ meta[c.name].injectable)
          => /\ container.services[c].type = "constructor"
             /\ meta[c.name].lifecycle = "transient" => ~container.services[c].singleton
             /\ meta[c.name].lifecycle = "none" => container.services[c].singleton


\* The container after the scan loop has handled classes 1..i of the
\* service-class list, started on the container of the current state.
C21_Upto(i) ==
    scanServiceClasses(container, SubSeq(getServiceClasses(registry), 1, i), 1)

\* What the loop does for class c, b being the container before and a the
\* container after: one constructor descriptor for c under c, with the
\* lifecycle of its metadata (singleton when it has none) and its declared
\* dependencies in canonical form, the same descriptor under the identifier
\* override when there is one other than c, and nothing else.
C21_Registered(b, a, c) ==
    LET single == IF meta[c.name].injectable THEN meta[c.name].singleton ELSE TRUE
        declared == meta[c.name].paramDeps
        deps == [j \in DOMAIN declared |->
                    IF declared[j] = NoId THEN NoId
                    ELSE getCanonicalIdentifier(b, declared[j])]
        override == meta[c.name].id
        extra == meta[c.name].injectable /\ override # NoId /\ override # c
        key == getCanonicalIdentifier(a, override)
    IN  /\ (extra /\ key # c) =>
              a.services[key] = ConstructorServiceDescriptor(key, c, single, deps)
        /\ a.services[c] = ConstructorServiceDescriptor(c, c, single, deps)
        /\ \A k \in Keys :
              (k # c /\ ~(extra /\ k = key)) => a.services[k] = b.services[k]

\* C21: a step of autoScanAndRegisters handles every class of the
\* service-class list once, in list order (no class is listed twice):
\* it registers the class under itself as a constructor descriptor with its
\* declared lifecycle, singleton when none is declared, and its declared
\* dependencies canonicalized, and also under its identifier override when
\* that differs from the class; the descriptors of the classes in the
\* container the step leaves are those of the loop.
C21_ScanRegistersEachClass ==
    [][TmickCalls({"autoScanAndRegisters"})
       => LET allServiceClasses == getServiceClasses(registry)
          IN  /\ \A i, j \in DOMAIN allServiceClasses :
                    i # j => allServiceClasses[i] # allServiceClasses[j]
              /\ \A i \in DOMAIN allServiceClasses :
                    C21_Registered(C21_Upto(i - 1), C21_Upto(i), allServiceClasses[i])
              /\ \A k \in Keys \ {COMMAND_DISPATCHER_TOKEN, QUERY_DISPATCHER_TOKEN, EVENT_DISPATCHER_TOKEN} :
                    container'.services[k] =
                       C21_Upto(Len(allServiceClasses)).services[k]]_vars

\* B, declared transient with a dependency on A and the override R, has been
\* scanned.
C21_Witness ==
    /\ tmick.last.op = "autoScanAndRegisters"
    /\ container.services[R] =
          ConstructorServiceDescriptor(R, Cls("B"), FALSE, <<Cls("A")>>)
    /\ container.services[Cls("B")] =
          ConstructorServiceDescriptor(Cls("B"), Cls("B"), FALSE, <<Cls("A")>>)


(***************************************************************************)
(* Further claims on the orchestrator, under SpecTmick.                    *)
(***************************************************************************)
\* The dispatcher the container returns for the token and for the class is
\* one object, the one in the field of the orchestrator.
C22_SameDispatcher(cs, token, class, field) ==
    /\ field # 0
    /\ get(cs, token, MaxStack).ok
    /\ get(cs, token, MaxStack).val = field
    /\ get(cs, class, MaxStack).ok
    /\ get(cs, class, MaxStack).val = field

\* Registration g is in the table of the dispatcher of its kind, under its
\* target type name.
C22_Wired(g, cmd, qry, evt) ==
    CASE g.handlerType = "command" ->
            MapHas(cmd, g.targetType) /\ MapGet(cmd, g.targetType) = g.handlerClass
      [] g.handlerType = "query" ->
            MapHas(qry, g.targetType) /\ MapGet(qry, g.targetType) = g.handlerClass
      [] OTHER ->
            /\ MapHas(evt, g.targetType)
            /\ \E j \in DOMAIN MapGet(evt, g.targetType) :
                  MapGet(evt, g.targetType)[j] = g.handlerClass

\* C22 as stated: when autoScanAndRegisters has returned, get of each of the
\* three dispatcher tokens returns the same instance as get of the concrete
\* dispatcher class, the instance the orchestrator holds, and every
\* registration of the handler registry is in the table of the dispatcher of
\* its kind under its target type name.
C22_DispatchersWired ==
    [][(TmickCalls({"autoScanAndRegisters"}) /\ tmick'.last.via = "return")
       => /\ C22_SameDispatcher(container', COMMAND_DISPATCHER_TOKEN, CommandDispatcher,
                                tmick'.commandDispatcher)
          /\ C22_SameDispatcher(container', QUERY_DISPATCHER_TOKEN, QueryDispatcher,
                                tmick'.queryDispatcher)
          /\ C22_SameDispatcher(container', EVENT_DISPATCHER_TOKEN, EventDispatcher,
                                tmick'.eventDispatcher)
          /\ \A i \in DOMAIN getRegistrations(registry) :
                C22_Wired(getRegistrations(registry)[i],
                          cmdHandlers', qryHandlers', evtHandlers')]_vars

\* The dispatcher the container returns for the token is the one in the
\* field of the orchestrator, and so is the one it returns for the class
\* while the class is registered as a singleton, which a class of the
\* registry is once the scan has registered it.
C22_SameWhileSingleton(cs, reg, token, class, field) ==
    /\ field # 0
    /\ get(cs, token, MaxStack).ok
    /\ get(cs, token, MaxStack).val = field
    /\ cs.services[class].type = "constructor"
    /\ (\E i \in DOMAIN getServiceClasses(reg) : getServiceClasses(reg)[i] = class)
          => cs.services[class].singleton
    /\ cs.services[class].singleton
          => /\ get(cs, class, MaxStack).ok
             /\ get(cs, class, MaxStack).val = field
             /\ get(cs, class, MaxStack).cs = cs

\* C22 (amended): when autoScanAndRegisters has returned, get of each of the
\* three dispatcher tokens returns the dispatcher the orchestrator itself
\* uses, and get of the concrete dispatcher class returns that same instance
\* as long as the class is registered as a singleton, as the scan registers
\* every dispatcher class it finds in the handler registry; every
\* registration of the handler registry is in the table of the dispatcher of
\* its kind under its target type name.
C22_DispatchersWiredWhileSingleton ==
    [][(TmickCalls({"autoScanAndRegisters"}) /\ tmick'.last.via = "return")
       => /\ C22_SameWhileSingleton(container', registry, COMMAND_DISPATCHER_TOKEN,
                                    CommandDispatcher, tmick'.commandDispatcher)
          /\ C22_SameWhileSingleton(container', registry, QUERY_DISPATCHER_TOKEN,
                                    QueryDispatcher, tmick'.queryDispatcher)
          /\ C22_SameWhileSingleton(container', registry, EVENT_DISPATCHER_TOKEN,
                                    EventDispatcher, tmick'.eventDispatcher)
          /\ \A i \in DOMAIN getRegistrations(registry) :
                C22_Wired(getRegistrations(registry)[i],
                          cmdHandlers', qryHandlers', evtHandlers')]_vars

\* A was registered as the handler of the query T1 and of the event T1, and a
\* scan has returned: both tables have it, and the container returns the
\* query dispatcher of the orchestrator for the token and for the class.
C22_Witness ==
    /\ tmick.last.op = "autoScanAndRegisters" /\ tmick.last.via = "return"
    /\ tmick.queryDispatcher # 0
    /\ get(container, QUERY_DISPATCHER_TOKEN, MaxStack).val = tmick.queryDispatcher
    /\ get(container, QueryDispatcher, MaxStack).val = tmick.queryDispatcher
    /\ MapHas(qryHandlers, "T1") /\ MapGet(qryHandlers, "T1") = Cls("A")
    /\ MapHas(evtHandlers, "T1") /\ MapGet(evtHandlers, "T1") = <<Cls("A")>>


(***************************************************************************)
(* Claims on registerByClass, under SpecByClass.                           *)
(***************************************************************************)
\* Object obj of heap h is what descriptor d yields: the instance it holds,
\* or an object its factory or its class has constructed.
C23_Yields(h, d, obj) ==
    CASE d.type = "instance" -> obj = d.instance
      [] d.type = "factory" -> obj \in DOMAIN h /\ h[obj].src = <<"factory", d.factory>>
      [] d.type = "constructor" -> obj \in DOMAIN h /\ h[obj].src = <<"class", d.ctor>>
      [] OTHER -> FALSE

\* r is the outcome of get(c) on a container whose descriptor for c has the
\* dependency list deps: when it returned, the object is an instance of c
\* constructed with one argument per entry, undefined for a gap and else
\* what the container has for that entry.
C23_BuiltFrom(r, c, deps) ==
    r.ok => /\ r.val \in DOMAIN r.cs.heap
            /\ r.cs.heap[r.val].src = <<"class", c.name>>
            /\ Len(r.cs.heap[r.val].args) = Len(deps)
            /\ \A j \in DOMAIN deps :
                  IF deps[j] = NoId THEN r.cs.heap[r.val].args[j] = 0
                  ELSE C23_Yields(r.cs.heap,
                                  r.cs.services[getCanonicalIdentifier(r.cs, deps[j])],
                                  r.cs.heap[r.val].args[j])

\* C23: registerByClass(c, single) stores under c itself a constructor
\* descriptor for c with the lifecycle given and the dependencies that c's
\* metadata declares, each in the canonical form it has in the container at
\* that moment; get(c) then returns an instance of c built from those
\* dependencies.  The list is fixed at registration: neither a later @Inject
\* on c nor a resolution changes a descriptor.
C23_RegisterByClass ==
    /\ [][calls' = calls + 1
          => \A c \in {Cls("A"), Cls("B")}, single \in BOOLEAN :
                RegisterByClass(c, single)
                   => LET declared == meta[c.name].paramDeps
                          deps == [j \in DOMAIN declared |->
                                      IF declared[j] = NoId THEN NoId
                                      ELSE getCanonicalIdentifier(container, declared[j])]
                      IN  /\ container'.services[c] =
                                ConstructorServiceDescriptor(c, c, single, deps)
                          /\ container'.instances[c] = 0
                          /\ \A k \in Keys \ {c} :
                                container'.services[k] = container.services[k]
                          /\ C23_BuiltFrom(get(container', c, MaxStack), c, deps)]_vars
    /\ [][calls' = calls
          => \A k \in Keys : container.services[k].type # "none"
                                => container'.services[k] = container.services[k]]_vars

\* B, whose first parameter is marked 's', was registered by class while 's'
\* stood for class A, and resolved: the descriptor lists A and the instance
\* of B holds an instance of A.
C23_Witness ==
    /\ meta["B"].paramDeps = <<Str("s")>>
    /\ container.services[Cls("B")] =
          ConstructorServiceDescriptor(Cls("B"), Cls("B"), TRUE, <<Cls("A")>>)
    /\ container.instances[Cls("B")] # 0
    /\ container.heap[container.heap[container.instances[Cls("B")]].args[1]].src
          = <<"class", "A">>


(***************************************************************************)
(* Further claims on the container, under Spec.                            *)
(***************************************************************************)
\* C30: get(c) for a class c that has injectable metadata and no descriptor
\* registers c from its metadata (its lifecycle, its declared dependencies in
\* canonical form) and returns an instance of c; when c is a singleton, a
\* get() of its declared identifier and a get() of c, on the container that
\* call leaves, both return that instance.
C30_AutoRegistration ==
    [][(calls' = calls /\ container' # container)
       => \A c \in Classes :
             (/\ meta[c.name].injectable
              /\ container.services[c].type = "none"
              /\ container.instances[c] = 0
              /\ get(container, c, MaxStack).ok
              /\ Get(c))
                => LET val == get(container, c, MaxStack).val
                       serviceId == IF meta[c.name].id # NoId THEN meta[c.name].id ELSE c
                   IN  /\ container'.heap[val].src = <<"class", c.name>>
                       /\ container'.services[c].type = "constructor"
                       /\ container'.services[c].ctor = c.name
                       /\ container'.services[c].singleton = meta[c.name].singleton
                       /\ container'.services[c].deps =
                             [j \in DOMAIN meta[c.name].paramDeps |->
                                 getCanonicalIdentifier(container, meta[c.name].paramDeps[j])]
                       /\ meta[c.name].singleton
                             => /\ get(container', serviceId, MaxStack).ok
                                /\ get(container', serviceId, MaxStack).val = val
                                /\ get(container', c, MaxStack).ok
                                /\ get(container', c, MaxStack).val = val]_vars


(***************************************************************************)
(* Further claims on the dispatchers, under SpecDispatch.                  *)
(***************************************************************************)
\* C28: when the promise of EventDispatcher.dispatch(events) has settled,
\* fulfilled or rejected, no handler call that dispatch started is still
\* running.
C28_AllSettled ==
    (disp.op = "event" /\ disp.promise \in {"fulfilled", "rejected"})
       => \A k \in DOMAIN disp.calls : disp.calls[k].state # "running"


\* C29: initialize() takes effect only after autoScanAndRegisters: whenever
\* the initialized flag is true the three dispatcher fields hold the
\* dispatchers a scan has resolved, and an executeCommand, executeQuery or
\* dispatchEvents call that passed the initialized check has delegated to its
\* dispatcher and returned that dispatcher's promise.
C29_InitializedAfterScan ==
    /\ tmick.initialized
          => /\ tmick.commandDispatcher # 0
             /\ tmick.queryDispatcher # 0
             /\ tmick.eventDispatcher # 0
    /\ (/\ tmick.last.op \in {"executeCommand", "executeQuery", "dispatchEvents"}
        /\ tmick.last.err # NotInitialized)
          => tmick.last.via = "promise"


(***************************************************************************)
(* Claims on two orchestrators, under SpecTwo.                             *)
(***************************************************************************)
\* The step is a call on the second orchestrator / on the first.
C27_OtherCalled == other'.tmick.n = other.tmick.n + 1
C27_FirstCalled == tmick'.n = tmick.n + 1

\* What getDebugInfo() of each orchestrator shows in the current and in the
\* next state.
C27_First == getDebugInfo(container, registry, tmick)
C27_FirstNext == getDebugInfo(container', registry', tmick')
C27_Other == getDebugInfo(other.container, registry, other.tmick)
C27_OtherNext == getDebugInfo(other'.container, registry', other'.tmick)

\* C27 as stated: an autoScanAndRegisters or a dispose on one orchestrator
\* changes nothing of what the other orchestrator shows: its handler
\* registrations, its scanned classes and its registered services are as
\* before.
C27_NoSharing ==
    [][/\ (C27_OtherCalled /\ other'.tmick.last.op \in {"autoScanAndRegisters", "dispose"})
             => C27_FirstNext = C27_First
       /\ (C27_FirstCalled /\ tmick'.last.op \in {"autoScanAndRegisters", "dispose"})
             => C27_OtherNext = C27_Other]_vars

\* C27, amended: the container state belongs to the orchestrator that
\* created it, the handler registry to the process.  A call on one
\* orchestrator leaves the container, the dispatchers and the fields of the
\* other as they are, so the services the other shows are as before; both
\* orchestrators show the same handler registrations and scanned classes,
\* and a dispose() of either empties them for both.
C27_ContainersApart ==
    /\ [][/\ C27_OtherCalled
             => /\ container' = container /\ tmick' = tmick
                /\ cmdHandlers' = cmdHandlers /\ qryHandlers' = qryHandlers
                /\ evtHandlers' = evtHandlers
                /\ C27_FirstNext.registeredServices = C27_First.registeredServices
                /\ C27_FirstNext.containerInfo = C27_First.containerInfo
                /\ C27_FirstNext.initialized = C27_First.initialized
          /\ C27_FirstCalled
             => /\ other' = other
                /\ C27_OtherNext.registeredServices = C27_Other.registeredServices
                /\ C27_OtherNext.containerInfo = C27_Other.containerInfo
                /\ C27_OtherNext.initialized = C27_Other.initialized
          /\ (\/ C27_OtherCalled /\ other'.tmick.last.op = "dispose"
              \/ C27_FirstCalled /\ tmick'.last.op = "dispose")
             => /\ C27_FirstNext.handlerRegistrations = <<>>
                /\ C27_FirstNext.serviceClassesRegisteredForScan = <<>>
                /\ C27_OtherNext.handlerRegistrations = <<>>
                /\ C27_OtherNext.serviceClassesRegisteredForScan = <<>>]_vars
    /\ [](/\ C27_First.handlerRegistrations = C27_Other.handlerRegistrations
          /\ C27_First.serviceClassesRegisteredForScan
                = C27_Other.serviceClassesRegisteredForScan)

\* Both orchestrators had scanned A, the handler of command T1, into their
\* own containers and dispatchers; the second was then disposed: the first
\* still has its services and its wiring, and the registry it shows is empty.
C27_Witness ==
    /\ other.tmick.last.op = "dispose"
    /\ \A k \in Keys : other.container.services[k].type = "none"
    /\ tmick.last.op = "autoScanAndRegisters" /\ tmick.last.via = "return"
    /\ container.services[Cls("A")].type = "constructor"
    /\ MapHas(cmdHandlers, "T1")
    /\ MapHas(other.cmdHandlers, "T1")
    /\ registry = EmptyRegistry


(***************************************************************************)
(* Claims on the container's invariants and failures, under Spec.          *)
(***************************************************************************)
\* C39: every identifier that has an entry in the instance cache has a
\* descriptor stored under that same identifier, and that descriptor is a
\* singleton.
C39_CachedIsSingleton ==
    \A k \in Keys :
       container.instances[k] # 0
          => /\ container.services[k].type # "none"
             /\ container.services[k].singleton


(***************************************************************************)
(* Claims on a failing get(), under SpecDecorators: tmick.get(id) of an    *)
(* initialized orchestrator is container.get(id).                          *)
(***************************************************************************)
\* The step is a get(id) that reached the container and threw.
C40_GetThrew ==
    /\ TmickCalls({"get"})
    /\ tmick.initialized
    /\ tmick'.last.via = "throw"

\* The descriptor under k in the next state is the one auto-registration
\* writes for an injectable class, under the class or its declared
\* identifier.
C40_AutoRegistered(k) ==
    \E c \in Classes :
       /\ meta[c.name].injectable
       /\ k \in {c, IF meta[c.name].id # NoId THEN meta[c.name].id ELSE c}
       /\ container'.services[k].type = "constructor"
       /\ container'.services[k].ctor = c.name
       /\ container'.services[k].singleton = meta[c.name].singleton
       /\ container'.services[k].identifier =
             (IF meta[c.name].id # NoId THEN meta[c.name].id ELSE c)

\* C40 as stated: after a get(id) that raised an error, the descriptor map
\* and the name-to-identifier table are what they were before the call.
C40_FailedGetRegistersNothing ==
    [][C40_GetThrew => /\ container'.services = container.services
                       /\ container'.strmap = container.strmap]_vars

\* C40, amended: after a get(id) that raised an error, the
\* name-to-identifier table is what it was before the call, and the
\* descriptor map differs only by the descriptors that auto-registration
\* wrote on the way, each for an injectable class under the class and its
\* declared identifier.
C40_FailedGetAutoRegistersOnly ==
    [][C40_GetThrew
       => /\ container'.strmap = container.strmap
          /\ \A k \in Keys :
                container'.services[k] # container.services[k] => C40_AutoRegistered(k)]_vars

\* B, injectable with its first parameter marked 's', was asked of an
\* initialized orchestrator that had not scanned: get(B) threw for 's' and
\* B's descriptor is in the container.
C40_Witness ==
    /\ tmick.n = 2
    /\ tmick.initialized
    /\ tmick.last.op = "get" /\ tmick.last.via = "throw"
    /\ tmick.last.err = NotRegistered(Str("s"))
    /\ container.services[Cls("B")].type = "constructor"
    /\ container.instances[Cls("B")] = 0


(***************************************************************************)
(* Claims on has() and get(), under SpecPlain.                             *)
(***************************************************************************)
\* get(id) fails with the not-registered error for id.
C38_NotRegistered(id) ==
    /\ ~get(container, id, MaxStack).ok
    /\ get(container, id, MaxStack).err = NotRegistered(id)

\* C38 as stated: has(id) true means get(id) does not fail with the
\* not-registered error for id, has(id) false means it does.
C38_HasAgreesWithGet ==
    \A id \in Ids :
       IF has(container, id) THEN ~C38_NotRegistered(id) ELSE C38_NotRegistered(id)


\* get(id) finds neither a cached instance nor a descriptor under id's
\* canonical form.
C38_Unknown(id) ==
    /\ container.instances[Canon(id)] = 0
    /\ DescriptorOf(id).type = "none"

\* C38 (amended): an identifier that has neither a descriptor nor a cached
\* instance under its canonical form makes get() fail with the not-registered
\* error for it exactly when it is not a class marked injectable, whatever
\* has() answers; in particular has(id) false gives that error unless get()
\* auto-registers id.
C38_HasPartlyAgreesWithGet ==
    \A id \in Ids :
       /\ C38_Unknown(id) => (C38_NotRegistered(id) <=> ~AutoRegistrable(id))
       /\ ~has(container, id) => (C38_NotRegistered(id) <=> ~AutoRegistrable(id))

\* 'A' was registered as a string, so has(A) answers true for the undecorated
\* class A by its name alone while get(A) fails with the not-registered error;
\* has(B) is false and get(B) auto-registers B.
C38_Witness ==
    /\ container.strmap["A"] # NoId
    /\ has(container, Cls("A"))
    /\ C38_Unknown(Cls("A"))
    /\ C38_NotRegistered(Cls("A"))
    /\ ~has(container, Cls("B"))
    /\ ~C38_NotRegistered(Cls("B"))


(***************************************************************************)
(* Termination of get(), under SpecResolve.                                *)
(***************************************************************************)
\* The errors a get() can end with.
C37_Errors ==
    {NotRegistered(k) : k \in Keys} \cup {StackOverflow}
    \cup {"Cannot resolve service '" \o getIdentifierName(k)
             \o "': No factory, constructor, or instance provided." : k \in Keys}

\* The outermost get() has ended in this step.
C37_Ends == run' # run /\ run'.state \in {"returned", "thrown"}

\* C37: every get(id) that is called ends, whatever has been registered and
\* however the dependencies of the descriptors lead back to a service under
\* construction: it returns an object of the heap or throws an error, the
\* RangeError of the engine when the nested calls have filled the stack.
\* What it returns or throws, and the container it leaves, are those of
\* get(id) taken as one step.
C37_GetTerminates ==
    /\ (run.state = "running") ~> (run.state \in {"returned", "thrown"})
    /\ [](run.state = "returned" => run.val \in DOMAIN container.heap)
    /\ [](run.state = "thrown" => run.err \in C37_Errors)
    /\ [][C37_Ends
            => LET g == get(run'.from, run'.id, MaxStack)
               IN  /\ g.ok <=> run'.state = "returned"
                   /\ g.val = run'.val
                   /\ g.err = run'.err
                   /\ g.cs = container']_vars

\* get(R) has constructed two objects and has then run into a cycle: it has
\* ended with the RangeError of the full stack and has left the two objects
\* behind.
C37_Witness ==
    /\ run.state = "thrown"
    /\ run.err = StackOverflow
    /\ run.id = R
    /\ Len(container.heap) = Len(run.from.heap) + 2


(***************************************************************************)
(* Dispatches that run concurrently: dispatch() is called while the        *)
(* promises of earlier calls are pending, and the handlers' promises       *)
(* settle in any order.  The handlers are wired as the scan of decorated   *)
(* handler classes leaves them: A handles command T1, B query T1, and both *)
(* handle event T1.                                                        *)
(***************************************************************************)
InitConcurrent ==
    /\ ContainerIdle
    /\ meta = MetaTable(R, TRUE)
    /\ registry = EmptyRegistry
    /\ cmdHandlers = <<<<"T1", Cls("A")>>>>
    /\ qryHandlers = <<<<"T1", Cls("B")>>>>
    /\ evtHandlers = <<<<"T1", <<Cls("A"), Cls("B")>>>>>>
    /\ lastReg = RegCall("new", "", "", NoId, [ok |-> TRUE, err |-> ""])
    /\ regCalls = 0
    /\ DispatchIdle
    /\ TmickIdle

\* How many earlier dispatches are followed while they are suspended.
MaxInflight == 1

\* A call of dispatch() while the promise of the call before is pending, r
\* what it does up to its first await; the call before stays suspended at
\* its await.
DispatchedMeanwhile(r) ==
    /\ disp.promise = "pending"
    /\ Len(inflight) < MaxInflight
    /\ regCalls < MaxRegistryCalls
    /\ Len(r.cs.heap) <= MaxHeap
    /\ container' = r.cs
    /\ disp' = r.d
    /\ inflight' = Append(inflight, disp)
    /\ regCalls' = regCalls + 1
    /\ UNCHANGED <<meta, calls, registry, cmdHandlers, qryHandlers, evtHandlers,
                   lastReg, tmick, other, run>>

DispatchCommandMeanwhile(name, throws) ==
    DispatchedMeanwhile(CommandDispatcher_dispatch(container, cmdHandlers, "command", name,
                                                   throws, disp))

DispatchQueryMeanwhile(name, throws) ==
    DispatchedMeanwhile(CommandDispatcher_dispatch(container, qryHandlers, "query", name,
                                                   throws, disp))

DispatchEventsMeanwhile(names, throwers) ==
    DispatchedMeanwhile(EventDispatcher_dispatch(
                            container, evtHandlers,
                            [disp EXCEPT !.op = "event", !.messages = names, !.pos = 0,
                                         !.gets = 0, !.calls = <<>>, !.promise = "pending",
                                         !.out = NoValue,
                                         !.all = NoValue, !.firm = FALSE],
                            1, throwers))

\* The promise handle() call k of the earlier dispatch i returned is fulfilled.
EarlierHandlerFulfils(i, k) ==
    /\ inflight[i].calls[k].state = "running"
    /\ inflight' = [inflight EXCEPT ![i] = settle(inflight[i], k, "fulfilled", Result(k))]
    /\ UNCHANGED <<containerVars, registryVars, disp, tmick, other, run>>

\* The promise handle() call k of the earlier dispatch i returned is rejected.
EarlierHandlerRejects(i, k) ==
    /\ inflight[i].calls[k].state = "running"
    /\ inflight' = [inflight EXCEPT ![i] = settle(inflight[i], k, "rejected",
                                                  HandlerError(k))]
    /\ UNCHANGED <<containerVars, registryVars, disp, tmick, other, run>>

\* The container and the dispatch that r, the loop of the earlier dispatch i
\* taken up again, leaves.
EarlierResumed(i, r) ==
    /\ Len(r.cs.heap) <= TmickHeap
    /\ container' = r.cs
    /\ inflight' = [inflight EXCEPT ![i] = r.d]
    /\ UNCHANGED <<meta, calls, registryVars, disp, tmick, other, run>>

\* The microtask in which the earlier dispatch i, of events, goes on.
EarlierDispatchResumes(i, throwers) ==
    /\ inflight[i].op = "event" /\ inflight[i].promise = "pending"
    /\ PromiseAll(inflight[i]) # "pending"
    /\ EarlierResumed(i, resume(container, evtHandlers, inflight[i], throwers))

\* The microtask in which the earlier dispatch i, of a command or query,
\* goes on.
EarlierDispatchReturns(i) ==
    /\ inflight[i].op \in {"command", "query"} /\ inflight[i].promise = "pending"
    /\ inflight[i].calls # <<>>
    /\ inflight[i].calls[Len(inflight[i].calls)].state # "running"
    /\ inflight' = [inflight EXCEPT ![i] = returnAwait(inflight[i])]
    /\ UNCHANGED <<containerVars, registryVars, disp, tmick, other, run>>

\* The microtasks in which the promises of the callbacks of the earlier
\* dispatch i take up the promises handle() returned, whatever has become of
\* those.
EarlierCallbacksFollow(i) ==
    /\ inflight[i].op = "event" /\ inflight[i].promise = "pending"
    /\ ~inflight[i].firm
    /\ inflight' = [inflight EXCEPT ![i].firm = TRUE]
    /\ UNCHANGED <<containerVars, registryVars, disp, tmick, other, run>>

NextConcurrent ==
    \/ DispatchCommand("T1", FALSE)
    \/ DispatchEvents(<<"T1", "T1">>, {})
    \/ DispatchCommandMeanwhile("T1", FALSE)
    \/ DispatchQueryMeanwhile("T1", FALSE)
    \/ DispatchEventsMeanwhile(<<"T1">>, {})
    \/ \E k \in DOMAIN disp.calls : HandlerFulfils(k)
    \/ \E k \in DOMAIN disp.calls : HandlerRejects(k)
    \/ DispatchResumes({})
    \/ \E i \in DOMAIN inflight : \E k \in DOMAIN inflight[i].calls :
          EarlierHandlerFulfils(i, k)
    \/ \E i \in DOMAIN inflight : \E k \in DOMAIN inflight[i].calls :
          EarlierHandlerRejects(i, k)
    \/ \E i \in DOMAIN inflight : EarlierDispatchResumes(i, {})
    \/ DispatchReturns
    \/ CallbacksFollow
    \/ \E i \in DOMAIN inflight : EarlierDispatchReturns(i)
    \/ \E i \in DOMAIN inflight : EarlierCallbacksFollow(i)

\* The dispatchers under every interleaving of dispatch() calls with the
\* settling of the handlers' promises.
SpecConcurrent == InitConcurrent /\ [][NextConcurrent]_vars


\* The dispatches that have been called and not replaced: the earlier ones
\* and the latest.
C31_Dispatches == Append(inflight, disp)

\* The handler objects the dispatches received from get(h).
C31_Received(h) ==
    UNION {{C31_Dispatches[i].calls[k].handler :
               k \in {l \in DOMAIN C31_Dispatches[i].calls :
                         /\ C31_Dispatches[i].calls[l].identifier = h
                         /\ C31_Dispatches[i].calls[l].handler # 0}} :
           i \in DOMAIN C31_Dispatches}

\* The objects constructed from class c.
C31_Constructed(c) ==
    {o \in DOMAIN container.heap : container.heap[o].src = <<"class", c.name>>}

\* The step ran container.get(): a new dispatch() that got as far as get(),
\* or a dispatch of events that went on to the handlers of its next event.
C31_RanGet ==
    \/ regCalls' = regCalls + 1 /\ disp'.gets > 0
    \/ regCalls' = regCalls /\ disp'.gets > disp.gets
    \/ /\ Len(inflight') = Len(inflight)
       /\ \E i \in DOMAIN inflight : inflight'[i].gets > inflight[i].gets

\* C31: with dispatches running concurrently and their handlers' promises
\* settling in any order, the container's descriptors and instance cache
\* change only in a step that runs get(); a class registered as a singleton
\* is constructed at most once and every dispatch that asks for it receives
\* that one object.
C31_SingletonsUnderInterleaving ==
    /\ [][(container'.services # container.services
             \/ container'.instances # container.instances) => C31_RanGet]_vars
    /\ [](\A c \in Classes :
             (container.services[c].type # "none" /\ container.services[c].singleton)
                => /\ Cardinality(C31_Constructed(c)) <= 1
                   /\ C31_Received(c) \subseteq C31_Constructed(c))

\* A command and an event dispatch are both suspended at the await of the
\* singleton handler A, and both hold the one A that was constructed.
C31_Witness ==
    /\ Len(inflight) = 1
    /\ inflight[1].op = "command" /\ inflight[1].promise = "pending"
    /\ disp.op = "event" /\ disp.promise = "pending"
    /\ inflight[1].calls[1].state = "running"
    /\ disp.calls[1].state = "running"
    /\ disp.calls[1].identifier = Cls("A")
    /\ disp.calls[1].handler = inflight[1].calls[1].handler
    /\ container.services[Cls("A")].singleton
    /\ C31_Constructed(Cls("A")) = {inflight[1].calls[1].handler}


(***************************************************************************)
(* The order of resolution, under Spec.                                    *)
(***************************************************************************)
\* get() called on the dependencies before place j one after the other, each
\* on the container the one before left: the container when the turn of
\* dependency j comes, and whether all of them returned.
RECURSIVE C32_Before(_, _, _)
C32_Before(cs, deps, j) ==
    IF j = 1 THEN [cs |-> cs, ok |-> TRUE]
    ELSE LET b == C32_Before(cs, deps, j - 1)
         IN  IF ~b.ok \/ deps[j - 1] = NoId THEN b
             ELSE LET r == get(b.cs, deps[j - 1], MaxStack - 1)
                  IN  [cs |-> r.cs, ok |-> r.ok]

\* C32: get() of a constructor descriptor that has no cached instance
\* resolves the declared dependencies by get(), one after the other from the
\* first to the last, each to its end before the next begins; it succeeds
\* exactly when all of them do, the constructor runs after the last of them,
\* and its argument i is the object get() returned for dependency i
\* (undefined for a gap).
C32_DependenciesInOrder ==
    \A id \in Ids :
        LET k == Canon(id)
            d == container.services[k]
            r == get(container, id, MaxStack)
            all == C32_Before(container, d.deps, Len(d.deps) + 1)
        IN  (d.type = "constructor" /\ container.instances[k] = 0)
            => /\ r.ok <=> all.ok
               /\ r.ok => /\ r.val = Len(r.cs.heap)
                          /\ r.cs.heap = Append(all.cs.heap, r.cs.heap[r.val])
                          /\ Len(r.cs.heap[r.val].args) = Len(d.deps)
                          /\ \A j \in DOMAIN d.deps :
                                r.cs.heap[r.val].args[j] =
                                   IF d.deps[j] = NoId THEN 0
                                   ELSE get(C32_Before(container, d.deps, j).cs, d.deps[j],
                                            MaxStack - 1).val

\* C is registered with the dependencies B and R, R with a factory that asks
\* for 's': get(C) constructs A, B (which auto-registration stores under
\* 's'), the object of the factory around B, and C around the two, in that
\* order.
C32_Witness ==
    /\ container.services[Cls("C")].type = "constructor"
    /\ container.services[Cls("C")].deps = <<Cls("B"), R>>
    /\ container.services[R].type = "factory"
    /\ container.instances[Cls("B")] = 0
    /\ LET r == get(container, Cls("C"), MaxStack)
           n == Len(container.heap)
       IN  /\ r.ok
           /\ r.val = n + 4
           /\ r.cs.heap[n + 1].src = <<"class", "A">>
           /\ r.cs.heap[n + 2] = [src |-> <<"class", "B">>, args |-> <<n + 1>>]
           /\ r.cs.heap[n + 3] = [src |-> <<"factory", "mk">>, args |-> <<n + 2>>]
           /\ r.cs.heap[n + 4] = [src |-> <<"class", "C">>, args |-> <<n + 2, n + 3>>]


(***************************************************************************)
(* Identifier overrides of scanned classes, under SpecDecorators.          *)
(***************************************************************************)
\* The scan has registered the singleton class B, declared with the
\* identifier override ov, under the class and under the override.
C33_ScannedWithOverride(ov) ==
    /\ tmick.commandDispatcher # 0
    /\ meta["B"].injectable /\ meta["B"].id = ov
    /\ container.services[Cls("B")].type = "constructor"
    /\ container.services[Cls("B")].ctor = "B"
    /\ container.services[Cls("B")].singleton
    /\ container.services[Canon(ov)].type = "constructor"
    /\ container.services[Canon(ov)].ctor = "B"
    /\ container.services[Canon(ov)].singleton

\* C33: a singleton class declared with an identifier override and registered
\* by autoScanAndRegisters has one instance: get(override) and get(class)
\* return the same object.
C33_OneInstance ==
    \A ov \in Ids \ {Cls("B")} :
        C33_ScannedWithOverride(ov)
           => LET r1 == get(container, ov, MaxStack)
                  r2 == get(r1.cs, Cls("B"), MaxStack)
              IN  (r1.ok /\ r2.ok) => r1.val = r2.val


(***************************************************************************)
(* One constructor under two strings, under Spec.                          *)
(***************************************************************************)
\* C34: registerConstructor(b, C) for a string b that was never registered,
\* called after registerConstructor(a, C) for another string a with the same
\* class C, leaves what get(a) resolves as it was: the descriptor (its
\* lifecycle and dependency list) and the cached instance.
C34_SecondStringIndependent ==
    [][calls' = calls + 1
       => \A a \in UserStrings, b \in UserStrings, ctor \in Classes, withDeps \in BOOLEAN :
             ( /\ a # b
               /\ container.strmap[a.name] = ctor
               /\ container.strmap[b.name] = NoId
               /\ container.services[ctor].type = "constructor"
               /\ RegisterConstructor(b, ctor, TRUE, withDeps) )
                => /\ container'.services[getCanonicalIdentifier(container', a)]
                         = container.services[Canon(a)]
                   /\ container'.instances[getCanonicalIdentifier(container', a)]
                         = container.instances[Canon(a)]]_vars


(***************************************************************************)
(* A second scan, under SpecScan.                                          *)
(***************************************************************************)
\* autoScanAndRegisters() is called on an orchestrator that holds its three
\* dispatchers from an earlier scan, with the registry as that scan found
\* it: the container still caches those dispatchers, so nothing was disposed
\* of or registered in their place, and the dispatchers' tables are what the
\* registrations of the registry make them.
C35_SecondScan ==
    /\ TmickCalls({"autoScanAndRegisters"})
    /\ tmick.commandDispatcher # 0 /\ tmick.queryDispatcher # 0 /\ tmick.eventDispatcher # 0
    /\ container.instances[CommandDispatcher] = tmick.commandDispatcher
    /\ container.instances[QueryDispatcher] = tmick.queryDispatcher
    /\ container.instances[EventDispatcher] = tmick.eventDispatcher
    /\ registry' = registry
    /\ wireRegistrations(Tables(<<>>, <<>>, <<>>), getRegistrations(registry), 1).tables
          = Tables(cmdHandlers, qryHandlers, evtHandlers)

C35_DispatcherClasses == {CommandDispatcher, QueryDispatcher, EventDispatcher}

\* The dispatchers in the fields of orchestrator tm.
C35_Dispatchers(tm) == <<tm.commandDispatcher, tm.queryDispatcher, tm.eventDispatcher>>

C35_Rebuilt ==
    /\ tmick.last.op = "autoScanAndRegisters" /\ tmick.last.via = "return"
    /\ Scans(CommandDispatcher) /\ Scans(Cls("A"))
    /\ \E o \in DOMAIN container.heap : container.heap[o].src = <<"class", "A">>
    /\ Cls("A") \notin container.cached
    /\ cmdHandlers = <<<<"T1", Cls("C")>>>>
    /\ Cardinality({o \in DOMAIN container.heap :
                       container.heap[o].src = <<"class", "CommandDispatcher">>}) = 2
    /\ tmick.commandDispatcher = container.instances[CommandDispatcher]
    /\ \A o \in DOMAIN container.heap :
          container.heap[o].src = <<"class", "CommandDispatcher">>
             => o <= tmick.commandDispatcher

\* The same with C the handler of event T1 in a registry without the
\* dispatcher classes: the second scan has returned and the event is bound
\* to C twice.
C35_Doubled ==
    /\ tmick.last.op = "autoScanAndRegisters" /\ tmick.last.via = "return"
    /\ ~Scans(EventDispatcher)
    /\ evtHandlers = <<<<"T1", <<Cls("C"), Cls("C")>>>>>>


\* C36: after dispose() the orchestrator can be brought up again:
\* autoScanAndRegisters() called next returns, with the three dispatchers
\* resolved from the container and the container registered under
\* ISERVICECONTAINER_TOKEN, so that initialize() then succeeds on a scanned
\* orchestrator.
C36_UpAgainAfterDispose ==
    [][(TmickCalls({"autoScanAndRegisters"}) /\ tmick.last.op = "dispose")
       => /\ tmick'.last.via = "return"
          /\ container'.services[ISERVICECONTAINER_TOKEN].type = "instance"
          /\ tmick'.commandDispatcher = container'.instances[CommandDispatcher]
          /\ tmick'.queryDispatcher = container'.instances[QueryDispatcher]
          /\ tmick'.eventDispatcher = container'.instances[EventDispatcher]
          /\ container'.instances[CommandDispatcher] # 0
          /\ container'.instances[QueryDispatcher] # 0
          /\ container'.instances[EventDispatcher] # 0]_vars

====
